---- MODULE Spec2Model ----
(***************************************************************************)
(* A model of goversion (github.com/bcomnes/goversion): the semver core,   *)
(* the generic semver finder/replacer, the version-pattern scanner and     *)
(* rewriter, and the Run / DryRun workflow over a file system and a git    *)
(* repository.                                                             *)
(*                                                                         *)
(* Strings are TLA+ strings; a byte is a string of length 1.               *)
(***************************************************************************)
EXTENDS Integers, Sequences, FiniteSets, TLC

VARIABLES
    files,   \* the file system: a function from the paths that exist to their content
    repo,    \* the git repository: HEAD's tree, index, commits, tags
    input,   \* the arguments of the call under study (drawn by Init of the pure specifications)
    call,    \* the call that produced ret ("none" before any call)
    ret,     \* what that call returned
    before,  \* files and repo as they were when the call was made
    ncalls   \* calls made so far

vars == <<files, repo, input, call, ret, before, ncalls>>

(***************************************************************************)
(* Bytes and strings (package strings, strconv, fmt of the Go library).    *)
(***************************************************************************)
DigitChars == "0123456789"
LowerChars == "abcdefghijklmnopqrstuvwxyz"
UpperChars == "ABCDEFGHIJKLMNOPQRSTUVWXYZ"

Ch(s, i) == SubSeq(s, i, i)

CharsOf(s) == { Ch(s, i) : i \in 1..Len(s) }

Digit == CharsOf(DigitChars)
Lower == CharsOf(LowerChars)
Upper == CharsOf(UpperChars)
Letter == Lower \cup Upper

\* strings.HasPrefix
HasPrefix(s, p) == Len(s) >= Len(p) /\ SubSeq(s, 1, Len(p)) = p

\* strings.HasSuffix
HasSuffix(s, p) == Len(s) >= Len(p) /\ SubSeq(s, Len(s) - Len(p) + 1, Len(s)) = p

\* strings.TrimPrefix
TrimPrefix(s, p) == IF HasPrefix(s, p) THEN SubSeq(s, Len(p) + 1, Len(s)) ELSE s

\* Body applied to v: a value given a name, computed once
With(v, Body(_)) == Body(v)

\* the least element of a non-empty set of integers
Min(S) == CHOOSE x \in S : \A y \in S : x <= y

\* strings.Index, 1-based; 0 when sep does not occur
Index(s, sep) ==
    With({ i \in 1..(Len(s) - Len(sep) + 1) : SubSeq(s, i, i + Len(sep) - 1) = sep },
         LAMBDA at : IF at = {} THEN 0 ELSE Min(at))

\* strings.Contains
Contains(s, sep) == Index(s, sep) # 0

\* strings.Split(s, sep) for a non-empty sep: always at least one part
RECURSIVE Split(_, _)
Split(s, sep) ==
    With(Index(s, sep), LAMBDA i :
        IF i = 0 THEN <<s>>
        ELSE <<SubSeq(s, 1, i - 1)>> \o Split(SubSeq(s, i + Len(sep), Len(s)), sep))

\* strings.SplitN(s, sep, 2)
SplitN2(s, sep) ==
    With(Index(s, sep), LAMBDA i :
        IF i = 0 THEN <<s>>
        ELSE <<SubSeq(s, 1, i - 1), SubSeq(s, i + Len(sep), Len(s))>>)

\* strings.Join
RECURSIVE Join(_, _)
Join(parts, sep) ==
    IF Len(parts) = 0 THEN ""
    ELSE IF Len(parts) = 1 THEN parts[1]
    ELSE parts[1] \o sep \o Join(Tail(parts), sep)

\* strings.Replace(s, old, new, 1): the first occurrence of old in s
Replace1(s, old, new) ==
    With(Index(s, old), LAMBDA i :
        IF i = 0 THEN s
        ELSE SubSeq(s, 1, i - 1) \o new \o SubSeq(s, i + Len(old), Len(s)))

DigitVal(c) == CHOOSE d \in 0..9 : Ch(DigitChars, d + 1) = c

AllDigits(s) == \A i \in 1..Len(s) : Ch(s, i) \in Digit

RECURSIVE DigitsVal(_)
DigitsVal(s) ==
    IF Len(s) = 0 THEN 0
    ELSE 10 * DigitsVal(SubSeq(s, 1, Len(s) - 1)) + DigitVal(Ch(s, Len(s)))

\* strconv.Atoi: an optional sign, then one or more decimal digits
Atoi(s) ==
    LET signed == Len(s) > 0 /\ Ch(s, 1) \in {"+", "-"}
    IN  With(IF signed THEN SubSeq(s, 2, Len(s)) ELSE s, LAMBDA body :
            IF Len(body) = 0 \/ ~AllDigits(body) THEN [ok |-> FALSE, n |-> 0]
            ELSE [ok |-> TRUE,
                  n |-> IF signed /\ Ch(s, 1) = "-" THEN 0 - DigitsVal(body) ELSE DigitsVal(body)])

\* strconv.Itoa, fmt's %d
RECURSIVE NatToStr(_)
NatToStr(n) ==
    IF n < 10 THEN Ch(DigitChars, n + 1)
    ELSE NatToStr(n \div 10) \o Ch(DigitChars, (n % 10) + 1)

Itoa(n) == IF n < 0 THEN "-" \o NatToStr(0 - n) ELSE NatToStr(n)

(***************************************************************************)
(* Semver core.                                                            *)
(***************************************************************************)
normalizeVersion(v) ==
    IF v = "dev" THEN "v0.0.0"
    ELSE IF ~HasPrefix(v, "v") THEN "v" \o v
    ELSE v

\* (major, minor, patch, prerelease, err) as a record; ok = (err == nil)
ParseFail == [ok |-> FALSE, major |-> 0, minor |-> 0, patch |-> 0, prerelease |-> ""]

parseSemVer(version) ==
    With(SplitN2(TrimPrefix(version, "v"), "-"), LAMBDA parts :
    With(Split(parts[1], "."), LAMBDA numParts :
        IF Len(numParts) # 3 THEN ParseFail
        ELSE With([k \in 1..3 |-> Atoi(numParts[k])], LAMBDA n :
            IF ~n[1].ok THEN ParseFail
            ELSE IF ~n[2].ok THEN [ParseFail EXCEPT !.major = n[1].n]
            ELSE IF ~n[3].ok THEN [ParseFail EXCEPT !.major = n[1].n, !.minor = n[2].n]
            ELSE [ok |-> TRUE,
                  major |-> n[1].n,
                  minor |-> n[2].n,
                  patch |-> n[3].n,
                  prerelease |-> IF Len(parts) = 2 THEN parts[2] ELSE ""])))

\* a variant that leaves the "v" out
formatSemVerBare(major, minor, patch, prerelease) ==
    With(Itoa(major) \o "." \o Itoa(minor) \o "." \o Itoa(patch), LAMBDA base :
        IF prerelease # "" THEN base \o "-" \o prerelease ELSE base)

\* a variant that joins the prerelease with a dot
formatSemVerDotted(major, minor, patch, prerelease) ==
    With("v" \o Itoa(major) \o "." \o Itoa(minor) \o "." \o Itoa(patch), LAMBDA base :
        IF prerelease # "" THEN base \o "." \o prerelease ELSE base)

formatSemVer(major, minor, patch, prerelease) ==
    With("v" \o Itoa(major) \o "." \o Itoa(minor) \o "." \o Itoa(patch), LAMBDA base :
        IF prerelease # "" THEN base \o "-" \o prerelease ELSE base)

Keywords == {"major", "minor", "patch", "premajor", "preminor", "prepatch", "prerelease"}

\* a variant that restarts an integer last segment at 0
bumpPrereleaseReset(prerelease) ==
    With(Split(prerelease, "."), LAMBDA parts :
    With(Atoi(parts[Len(parts)]), LAMBDA a :
        IF a.ok
        THEN Join([parts EXCEPT ![Len(parts)] = "0"], ".")
        ELSE prerelease \o ".0"))

\* the "prerelease" case of bumpVersion's switch, on the parsed prerelease
bumpPrerelease(prerelease) ==
    With(Split(prerelease, "."), LAMBDA parts :
    With(Atoi(parts[Len(parts)]), LAMBDA a :
        IF a.ok
        THEN Join([parts EXCEPT ![Len(parts)] = Itoa(a.n + 1)], ".")
        ELSE prerelease \o ".0"))

\* a variant of the switch in which "minor" and "preminor" keep the patch number
bumpFieldsKeepPatch(p, bump) ==
    CASE bump = "major"    -> [p EXCEPT !.major = p.major + 1, !.minor = 0, !.patch = 0, !.prerelease = ""]
      [] bump = "minor"    -> [p EXCEPT !.minor = p.minor + 1, !.prerelease = ""]
      [] bump = "patch"    -> [p EXCEPT !.patch = p.patch + 1, !.prerelease = ""]
      [] bump = "premajor" -> [p EXCEPT !.major = p.major + 1, !.minor = 0, !.patch = 0, !.prerelease = "0"]
      [] bump = "preminor" -> [p EXCEPT !.minor = p.minor + 1, !.prerelease = "0"]
      [] bump = "prepatch" -> [p EXCEPT !.patch = p.patch + 1, !.prerelease = "0"]
      [] bump = "prerelease" ->
            IF p.prerelease # ""
            THEN [p EXCEPT !.prerelease = bumpPrerelease(p.prerelease)]
            ELSE [p EXCEPT !.patch = p.patch + 1, !.prerelease = "0"]
      [] OTHER -> [p EXCEPT !.ok = FALSE]

\* a variant of the switch in which "prepatch" leaves the patch number alone
bumpFieldsPrepatchInPlace(p, bump) ==
    CASE bump = "major"    -> [p EXCEPT !.major = p.major + 1, !.minor = 0, !.patch = 0, !.prerelease = ""]
      [] bump = "minor"    -> [p EXCEPT !.minor = p.minor + 1, !.patch = 0, !.prerelease = ""]
      [] bump = "patch"    -> [p EXCEPT !.patch = p.patch + 1, !.prerelease = ""]
      [] bump = "premajor" -> [p EXCEPT !.major = p.major + 1, !.minor = 0, !.patch = 0, !.prerelease = "0"]
      [] bump = "preminor" -> [p EXCEPT !.minor = p.minor + 1, !.patch = 0, !.prerelease = "0"]
      [] bump = "prepatch" -> [p EXCEPT !.prerelease = "0"]
      [] bump = "prerelease" ->
            IF p.prerelease # ""
            THEN [p EXCEPT !.prerelease = bumpPrerelease(p.prerelease)]
            ELSE [p EXCEPT !.patch = p.patch + 1, !.prerelease = "0"]
      [] OTHER -> [p EXCEPT !.ok = FALSE]

\* the switch of bumpVersion on the parsed fields; ok = FALSE is the default case
bumpFields(p, bump) ==
    CASE bump = "major"    -> [p EXCEPT !.major = p.major + 1, !.minor = 0, !.patch = 0, !.prerelease = ""]
      [] bump = "minor"    -> [p EXCEPT !.minor = p.minor + 1, !.patch = 0, !.prerelease = ""]
      [] bump = "patch"    -> [p EXCEPT !.patch = p.patch + 1, !.prerelease = ""]
      [] bump = "premajor" -> [p EXCEPT !.major = p.major + 1, !.minor = 0, !.patch = 0, !.prerelease = "0"]
      [] bump = "preminor" -> [p EXCEPT !.minor = p.minor + 1, !.patch = 0, !.prerelease = "0"]
      [] bump = "prepatch" -> [p EXCEPT !.patch = p.patch + 1, !.prerelease = "0"]
      [] bump = "prerelease" ->
            IF p.prerelease # ""
            THEN [p EXCEPT !.prerelease = bumpPrerelease(p.prerelease)]
            ELSE [p EXCEPT !.patch = p.patch + 1, !.prerelease = "0"]
      [] OTHER -> [p EXCEPT !.ok = FALSE]

\* (string, error): err is "" for nil
\* a variant that hands the current version back for a directive it does not know
bumpVersionLenient(current, bump) ==
    With(parseSemVer(current), LAMBDA p :
        IF ~p.ok THEN [v |-> "", err |-> "format"]
        ELSE With(bumpFields(p, bump), LAMBDA q :
            IF ~q.ok THEN [v |-> formatSemVer(p.major, p.minor, p.patch, p.prerelease), err |-> ""]
            ELSE [v |-> formatSemVer(q.major, q.minor, q.patch, q.prerelease), err |-> ""]))

bumpVersion(current, bump) ==
    With(parseSemVer(current), LAMBDA p :
        IF ~p.ok THEN [v |-> "", err |-> "format"]
        ELSE With(bumpFields(p, bump), LAMBDA q :
            IF ~q.ok THEN [v |-> "", err |-> "unknown bump argument"]
            ELSE [v |-> formatSemVer(q.major, q.minor, q.patch, q.prerelease), err |-> ""]))

(***************************************************************************)
(* Regular expressions (package regexp).  A pattern is a tree of records.  *)
(* Results lists, in the order a backtracking matcher would try them,      *)
(* every way a node can match from a state (an offset and the capture      *)
(* spans so far); its first element is the leftmost-first match that       *)
(* regexp guarantees.  Offsets are 0-based byte offsets as in the Go API;  *)
(* caps[k] is the span <<start, end>> of capture group k, <<-1, -1>> when  *)
(* it took no part.                                                        *)
(***************************************************************************)
Space == {" ", "\t", "\n", "\r", "\f"}          \* \s
Word == Digit \cup Letter \cup {"_"}            \* \w

\* a literal string
Lit(s) == [t |-> "lit", s |-> s]
\* a literal string under (?i)
LitI(s) == [t |-> "liti", s |-> s]
\* a run of min..max bytes of the class S (max = -1: unbounded), greedy or lazy
RRun(S, min, max, greedy) ==
    [t |-> "run", s |-> S, neg |-> FALSE, min |-> min, max |-> max, greedy |-> greedy]
\* the same for the negated class [^S]
RNotRun(S, min, max, greedy) ==
    [t |-> "run", s |-> S, neg |-> TRUE, min |-> min, max |-> max, greedy |-> greedy]
RSet(S) == RRun(S, 1, 1, TRUE)                  \* [...]
RSetOpt(S) == RRun(S, 0, 1, TRUE)               \* [...]?
RSetStar(S) == RRun(S, 0, -1, TRUE)             \* [...]*
RSetPlus(S) == RRun(S, 1, -1, TRUE)             \* [...]+
RNotPlus(S) == RNotRun(S, 1, -1, TRUE)          \* [^...]+
RAnyLazyStar == RNotRun({"\n"}, 0, -1, FALSE)   \* .*?
RSeq(items) == [t |-> "seq", items |-> items]
RAlt(items) == [t |-> "alt", items |-> items]
\* repetition of a pattern that matches no empty string
RRep(r, min, max, greedy) == [t |-> "rep", r |-> r, min |-> min, max |-> max, greedy |-> greedy]
ROpt(r) == RRep(r, 0, 1, TRUE)                  \* (?:r)?
RStar(r) == RRep(r, 0, -1, TRUE)                \* (?:r)*
RGrp(k, r) == [t |-> "grp", k |-> k, r |-> r]   \* (r), the k-th capture group
RBol == [t |-> "bol"]                           \* ^
RBolM == [t |-> "bolm"]                         \* ^ under (?m)
REol == [t |-> "eol"]                           \* $

\* the bytes a byte matches under (?i)
Fold(c) ==
    {c} \cup { Ch(UpperChars, i) : i \in { j \in 1..26 : Ch(LowerChars, j) = c } }
        \cup { Ch(LowerChars, i) : i \in { j \in 1..26 : Ch(UpperChars, j) = c } }

NoMatch == [ok |-> FALSE, start |-> -1, end |-> -1, caps |-> <<>>]

\* the length of the longest run of class bytes from offset i, at most limit
RunLength(n, s, i, limit) ==
    LET in(j) == (Ch(s, i + j) \in n.s) # n.neg
    IN  CHOOSE k \in 0..limit : (\A j \in 1..k : in(j)) /\ (k = limit \/ ~in(k + 1))

RECURSIVE Results(_, _, _)
RECURSIVE SeqResults(_, _, _, _, _)
RECURSIVE AltResults(_, _, _, _, _)

\* the states node n can reach from the states sts, in priority order
Results(n, s, sts) ==
    IF Len(sts) = 0 THEN <<>>
    ELSE IF Len(sts) > 1
    THEN Results(n, s, SubSeq(sts, 1, Len(sts) \div 2))
            \o Results(n, s, SubSeq(sts, (Len(sts) \div 2) + 1, Len(sts)))
    ELSE
    LET st == sts[1]
        i == st.pos
    IN  CASE n.t = "lit" ->
                IF i + Len(n.s) <= Len(s) /\ SubSeq(s, i + 1, i + Len(n.s)) = n.s
                THEN <<[st EXCEPT !.pos = i + Len(n.s)]>> ELSE <<>>
          [] n.t = "liti" ->
                IF i + Len(n.s) <= Len(s) /\ \A k \in 1..Len(n.s) : Ch(s, i + k) \in Fold(Ch(n.s, k))
                THEN <<[st EXCEPT !.pos = i + Len(n.s)]>> ELSE <<>>
          [] n.t = "run" ->
                LET avail == Len(s) - i
                    limit == IF n.max = -1 \/ n.max > avail THEN avail ELSE n.max
                IN  With(RunLength(n, s, i, limit), LAMBDA m :
                        IF m < n.min THEN <<>>
                        ELSE [k \in 1..(m - n.min + 1) |->
                                [st EXCEPT !.pos = IF n.greedy THEN i + m - (k - 1)
                                                   ELSE i + n.min + (k - 1)]])
          [] n.t = "seq" -> SeqResults(n.items, 1, Len(n.items), s, sts)
          [] n.t = "alt" -> AltResults(n.items, 1, Len(n.items), s, sts)
          [] n.t = "rep" ->
                LET less == [n EXCEPT !.min = IF @ > 0 THEN @ - 1 ELSE 0,
                                      !.max = IF @ > 0 THEN @ - 1 ELSE @]
                    more == Results(less, s, Results(n.r, s, sts))
                IN  IF n.max = 0 THEN sts
                    ELSE IF n.min > 0 THEN more
                    ELSE IF n.greedy THEN more \o sts
                    ELSE sts \o more
          [] n.t = "grp" ->
                LET inner == Results(n.r, s, sts)
                IN  [k \in 1..Len(inner) |-> [inner[k] EXCEPT !.caps[n.k] = <<i, inner[k].pos>>]]
          [] n.t = "bol" -> IF i = 0 THEN sts ELSE <<>>
          [] n.t = "bolm" -> IF i = 0 \/ Ch(s, i) = "\n" THEN sts ELSE <<>>
          [] n.t = "eol" -> IF i = Len(s) THEN sts ELSE <<>>

\* items[lo..hi] one after the other
SeqResults(items, lo, hi, s, sts) ==
    IF lo > hi THEN sts
    ELSE IF lo = hi THEN Results(items[lo], s, sts)
    ELSE SeqResults(items, ((lo + hi) \div 2) + 1, hi, s,
                    SeqResults(items, lo, (lo + hi) \div 2, s, sts))

\* items[lo..hi] as alternatives, the earlier one preferred
AltResults(items, lo, hi, s, sts) ==
    IF lo > hi THEN <<>>
    ELSE IF lo = hi THEN Results(items[lo], s, sts)
    ELSE AltResults(items, lo, (lo + hi) \div 2, s, sts)
            \o AltResults(items, ((lo + hi) \div 2) + 1, hi, s, sts)

\* a compiled pattern: its tree and its number of capture groups
Regexp(tree, groups) == [tree |-> tree, groups |-> groups]

\* the match of re that starts at offset start, if there is one
MatchAt(re, s, start) ==
    With(Results(re.tree, s, <<[pos |-> start, caps |-> [k \in 1..re.groups |-> <<-1, -1>>]]>>),
         LAMBDA rs :
            IF Len(rs) = 0 THEN NoMatch
            ELSE [ok |-> TRUE, start |-> start, end |-> rs[1].pos, caps |-> rs[1].caps])

\* the leftmost match of re in s that starts at offset from or later
FindFrom(re, s, from) ==
    With([i \in from..Len(s) |-> MatchAt(re, s, i)], LAMBDA at :
    With({ i \in from..Len(s) : at[i].ok }, LAMBDA starts :
        IF starts = {} THEN NoMatch ELSE at[Min(starts)]))

\* regexp.FindSubmatchIndex / FindStringSubmatchIndex
FindSubmatchIndex(re, s) == FindFrom(re, s, 0)

\* regexp.FindAllIndex / FindAllStringSubmatchIndex with n = -1, for patterns
\* that match no empty string: successive non-overlapping matches
RECURSIVE FindAllFrom(_, _, _)
FindAllFrom(re, s, from) ==
    With(FindFrom(re, s, from), LAMBDA m :
        IF ~m.ok THEN <<>> ELSE <<m>> \o FindAllFrom(re, s, m.end))

FindAll(re, s) == FindAllFrom(re, s, 0)

\* s[a:b] of Go, 0-based and half-open
Slice(s, a, b) == SubSeq(s, a + 1, b)

(***************************************************************************)
(* State shared by the specifications.                                     *)
(***************************************************************************)
NoFiles == [p \in {} |-> ""]
EmptyRepo ==
    [available |-> TRUE, head |-> NoFiles, staged |-> {}, commits |-> <<>>, tags |-> {}, latest |-> ""]
NoCall == [op |-> "none"]
NoRet == [op |-> "none"]

(***************************************************************************)
(* SpecBump: bumpVersion applied to a drawn (current, bump).               *)
(***************************************************************************)
MaxNum == 1

\* numeric components as they can be written: plain, with a carry ahead,
\* with a leading zero, with a sign
NumStrs == { Itoa(n) : n \in 0..MaxNum } \cup {"9", "01", "+2"}

PrereleaseStrs ==
    {"", "0", "9", "rc", "rc.1", "rc.9", "alpha.beta", "rc-1", "rc.01", "rc.-1", "rc.", "1.x", "x.1.2"}

WellFormedVersions ==
    { tag \o a \o "." \o b \o "." \o c \o (IF pre = "" THEN "" ELSE "-" \o pre) :
        tag \in {"v", ""}, a \in NumStrs, b \in NumStrs, c \in NumStrs, pre \in PrereleaseStrs }

OddVersions == {"", "v", "v1.2", "v1.2.3.4", "vx.1.1", "v1.2.3+b", "v1.2.3-", "v1..3", "dev"}

BumpInputs ==
    [current : WellFormedVersions \cup OddVersions, bump : Keywords \cup {"bogus", "from-git"}]

InitBump ==
    /\ input \in BumpInputs
    /\ files = NoFiles
    /\ repo = EmptyRepo
    /\ call = NoCall
    /\ ret = NoRet
    /\ before = [files |-> NoFiles, repo |-> EmptyRepo]
    /\ ncalls = 0

BumpVersionCall ==
    /\ call.op = "none"
    /\ call' = [op |-> "bumpVersion"]
    /\ ret' = bumpVersion(input.current, input.bump)
    /\ ncalls' = ncalls + 1
    /\ UNCHANGED <<files, repo, input, before>>

NextBump == BumpVersionCall

SpecBump == InitBump /\ [][NextBump]_vars

\* the numeric change directive X (or preX) makes to a parsed version
NumericBumpOk(p, q, x) ==
    CASE x = "major" -> q.major = p.major + 1 /\ q.minor = 0 /\ q.patch = 0
      [] x = "minor" -> q.major = p.major /\ q.minor = p.minor + 1 /\ q.patch = 0
      [] x = "patch" -> q.major = p.major /\ q.minor = p.minor /\ q.patch = p.patch + 1

\* C1: for a parseable current version, major/minor/patch increment their
\* field, zero the lower fields, keep the higher ones and clear the
\* prerelease; premajor/preminor/prepatch make the same numeric change and
\* set the prerelease to "0".
C1_BumpNumericFields ==
    (call.op = "bumpVersion" /\ parseSemVer(input.current).ok
        /\ input.bump \in {"major", "minor", "patch", "premajor", "preminor", "prepatch"})
    => LET p == parseSemVer(input.current)
           q == parseSemVer(ret.v)
           pre == HasPrefix(input.bump, "pre")
           x == IF pre THEN SubSeq(input.bump, 4, Len(input.bump)) ELSE input.bump
       IN  /\ ret.err = ""
           /\ q.ok
           /\ NumericBumpOk(p, q, x)
           /\ q.prerelease = (IF pre THEN "0" ELSE "")

C1_Witness ==
    /\ call.op = "bumpVersion"
    /\ input.bump = "preminor"
    /\ parseSemVer(input.current).ok
    /\ parseSemVer(input.current).patch > 0
    /\ parseSemVer(input.current).prerelease # ""
    /\ ret.err = ""

\* C2: directive prerelease: an integer last segment is replaced by the
\* integer plus one and nothing else changes; a non-integer last segment gets
\* ".0" appended to the whole prerelease and nothing else changes; without a
\* prerelease, patch is incremented and the prerelease becomes "0".
C2_BumpPrerelease ==
    (call.op = "bumpVersion" /\ parseSemVer(input.current).ok /\ input.bump = "prerelease")
    => LET p == parseSemVer(input.current)
           q == parseSemVer(ret.v)
           ps == Split(p.prerelease, ".")
           qs == Split(q.prerelease, ".")
       IN  /\ ret.err = ""
           /\ q.ok
           /\ q.major = p.major /\ q.minor = p.minor
           /\ IF p.prerelease = ""
              THEN q.patch = p.patch + 1 /\ q.prerelease = "0"
              ELSE /\ q.patch = p.patch
                   /\ IF Atoi(ps[Len(ps)]).ok
                      THEN /\ Len(qs) = Len(ps)
                           /\ \A i \in 1..(Len(ps) - 1) : qs[i] = ps[i]
                           /\ Atoi(qs[Len(qs)]).ok
                           /\ Atoi(qs[Len(qs)]).n = Atoi(ps[Len(ps)]).n + 1
                           /\ qs[Len(qs)] = Itoa(Atoi(ps[Len(ps)]).n + 1)
                      ELSE q.prerelease = p.prerelease \o ".0"

C2_Witness ==
    /\ call.op = "bumpVersion"
    /\ input.bump = "prerelease"
    /\ parseSemVer(input.current).ok
    /\ Len(Split(parseSemVer(input.current).prerelease, ".")) >= 2
    /\ Atoi(Split(parseSemVer(input.current).prerelease, ".")[2]).ok
    /\ ret.err = ""

\* the characters of version strings in ASCII order
AsciiOrder == "+-.0123456789ABCDEFGHIJKLMNOPQRSTUVWXYZabcdefghijklmnopqrstuvwxyz"

\* x comes before y in ASCII order, byte by byte
StrLess(x, y) ==
    \E i \in 1..(Len(y)) :
        /\ i <= Len(x) + 1
        /\ SubSeq(x, 1, i - 1) = SubSeq(y, 1, i - 1)
        /\ i <= Len(x) => Index(AsciiOrder, Ch(x, i)) < Index(AsciiOrder, Ch(y, i))

\* a numeric prerelease identifier in the sense of semver: digits only
IsNumericIdent(x) == x # "" /\ \A i \in 1..Len(x) : Ch(x, i) \in Digit

\* semver precedence of two prerelease identifiers: numeric ones by value, a
\* numeric one below an alphanumeric one, alphanumeric ones in ASCII order
IdentLess(x, y) ==
    IF IsNumericIdent(x) /\ IsNumericIdent(y) THEN Atoi(x).n < Atoi(y).n
    ELSE IF IsNumericIdent(x) \/ IsNumericIdent(y) THEN IsNumericIdent(x)
    ELSE StrLess(x, y)

\* semver precedence of two prereleases: a version without one is above the
\* same version with one; else the first identifier that differs decides, and
\* the longer list wins when one is a prefix of the other
PrereleaseLess(a, b) ==
    IF a = "" \/ b = "" THEN a # "" /\ b = ""
    ELSE With(Split(a, "."), LAMBDA as : With(Split(b, "."), LAMBDA bs :
            \E i \in 1..Len(bs) :
                /\ i <= Len(as) + 1
                /\ \A j \in 1..(i - 1) : as[j] = bs[j]
                /\ i <= Len(as) => IdentLess(as[i], bs[i])))

\* semver precedence of two parsed versions
PrecedenceLess(p, q) ==
    \/ p.major < q.major
    \/ p.major = q.major /\ p.minor < q.minor
    \/ p.major = q.major /\ p.minor = q.minor /\ p.patch < q.patch
    \/ /\ p.major = q.major /\ p.minor = q.minor /\ p.patch = q.patch
       /\ PrereleaseLess(p.prerelease, q.prerelease)

\* a keyword bump of a version parseSemVer accepts has returned
KeywordBumped ==
    call.op = "bumpVersion" /\ parseSemVer(input.current).ok /\ input.bump \in Keywords

\* the last prerelease identifier of the current version is an integer for
\* strconv.Atoi but carries a sign, so it is not a numeric identifier of semver
SignedLastIdent ==
    With(Split(parseSemVer(input.current).prerelease, "."), LAMBDA ps :
        Atoi(ps[Len(ps)]).ok /\ ~IsNumericIdent(ps[Len(ps)]))

C12_BumpVersionTotal ==
    call.op = "bumpVersion"
    => /\ (parseSemVer(input.current).ok /\ input.bump \in Keywords)
            => (ret.err = "" /\ ret.v # "")
       /\ input.bump \notin Keywords => (ret.err # "" /\ ret.v = "")

\* a prerelease bump of a version whose prerelease has no number at its end
C12_Witness ==
    /\ call.op = "bumpVersion"
    /\ input.current = "v1.0.1-rc"
    /\ input.bump = "prerelease"
    /\ ret = [v |-> "v1.0.1-rc.0", err |-> ""]

(***************************************************************************)
(* The round trips of parseSemVer and formatSemVer: a version string is    *)
(* parsed and formatted again, or four values are formatted and parsed.    *)
(***************************************************************************)
\* the numbers of a version tuple: one digit, two digits, three digits
FieldValues == (0..MaxNum) \cup {9, 10, 123}

RoundTripInputs ==
    [version : WellFormedVersions \cup OddVersions]
        \cup [major : FieldValues, minor : FieldValues, patch : FieldValues,
              prerelease : PrereleaseStrs \cup {"-", "rc-1-2", "-rc"}]

InitRoundTrip ==
    /\ input \in RoundTripInputs
    /\ files = NoFiles
    /\ repo = EmptyRepo
    /\ call = NoCall
    /\ ret = NoRet
    /\ before = [files |-> NoFiles, repo |-> EmptyRepo]
    /\ ncalls = 0

ParseThenFormatCall ==
    /\ call.op = "none"
    /\ "version" \in DOMAIN input
    /\ \E p \in {parseSemVer(input.version)} :
          ret' = [parsed |-> p,
                  formatted |-> IF p.ok THEN formatSemVer(p.major, p.minor, p.patch, p.prerelease)
                                ELSE ""]
    /\ call' = [op |-> "parseThenFormat"]
    /\ ncalls' = ncalls + 1
    /\ UNCHANGED <<files, repo, input, before>>

FormatThenParseCall ==
    /\ call.op = "none"
    /\ "major" \in DOMAIN input
    /\ \E s \in {formatSemVer(input.major, input.minor, input.patch, input.prerelease)} :
          ret' = [formatted |-> s, parsed |-> parseSemVer(s)]
    /\ call' = [op |-> "formatThenParse"]
    /\ ncalls' = ncalls + 1
    /\ UNCHANGED <<files, repo, input, before>>

NextRoundTrip == ParseThenFormatCall \/ FormatThenParseCall

SpecRoundTrip == InitRoundTrip /\ [][NextRoundTrip]_vars

\* a number written in decimal without sign and without leading zeros
CanonicalNumber(s) == s # "" /\ AllDigits(s) /\ (s = "0" \/ Ch(s, 1) # "0")

\* v, three canonical numbers joined by dots and, if anything follows, a hyphen
\* and a prerelease that is not empty
CanonicalVersion(s) ==
    /\ HasPrefix(s, "v")
    /\ With(SplitN2(TrimPrefix(s, "v"), "-"), LAMBDA parts :
          /\ With(Split(parts[1], "."), LAMBDA nums :
                Len(nums) = 3 /\ \A k \in 1..3 : CanonicalNumber(nums[k]))
          /\ Len(parts) = 2 => parts[2] # "")

\* C13 (as claimed): for every string parseSemVer accepts, formatSemVer of the
\* four values it returns is that string again.
C13_ParseThenFormatIsIdentity ==
    (call.op = "parseThenFormat" /\ ret.parsed.ok) => ret.formatted = input.version

\* C13 (amended): for every canonical version string (a "v", three numbers
\* without sign or leading zeros, and an optional prerelease that is not empty
\* after a hyphen), parseSemVer accepts it and formatSemVer of the four values
\* is that string again.
C13_CanonicalRoundTrip ==
    (call.op = "parseThenFormat" /\ CanonicalVersion(input.version))
    => (ret.parsed.ok /\ ret.formatted = input.version)

\* a canonical version whose prerelease holds a hyphen came back unchanged
C13_Witness ==
    /\ call.op = "parseThenFormat"
    /\ input.version = "v1.0.9-rc-1"
    /\ ret.parsed.ok
    /\ ret.formatted = "v1.0.9-rc-1"

\* C14: for non-negative major, minor, patch and any prerelease string, empty or
\* not, with or without hyphens, parseSemVer of formatSemVer(major, minor, patch,
\* prerelease) succeeds and returns the same four values.
C14_FormatThenParseIsIdentity ==
    call.op = "formatThenParse"
    => ret.parsed = [ok |-> TRUE, major |-> input.major, minor |-> input.minor,
                     patch |-> input.patch, prerelease |-> input.prerelease]

\* a tuple with a number of several digits and hyphens in the prerelease came back
C14_Witness ==
    /\ call.op = "formatThenParse"
    /\ input = [major |-> 123, minor |-> 0, patch |-> 10, prerelease |-> "rc-1-2"]
    /\ ret.formatted = "v123.0.10-rc-1-2"
    /\ ret.parsed.ok
    /\ ret.parsed.prerelease = "rc-1-2"

(***************************************************************************)
(* Generic semver finder/replacer.                                         *)
(***************************************************************************)
NonZeroDigit == Digit \ {"0"}
IdentChar == Digit \cup Letter \cup {"-"}       \* [0-9a-zA-Z-]

\* 0|[1-9]\d*
NumericIdent == RAlt(<<Lit("0"), RSeq(<<RSet(NonZeroDigit), RSetStar(Digit)>>)>>)

\* 0|[1-9]\d*|\d*[a-zA-Z-][0-9a-zA-Z-]*
PrereleaseIdent ==
    RAlt(<<Lit("0"),
           RSeq(<<RSet(NonZeroDigit), RSetStar(Digit)>>),
           RSeq(<<RSetStar(Digit), RSet(Letter \cup {"-"}), RSetStar(IdentChar)>>)>>)

\* semverPattern: the semver.org expression without its anchors
SemverRegexp ==
    Regexp(
        RSeq(<<RGrp(1, NumericIdent), Lit("."), RGrp(2, NumericIdent), Lit("."), RGrp(3, NumericIdent),
               ROpt(RSeq(<<Lit("-"),
                           RGrp(4, RSeq(<<PrereleaseIdent,
                                          RStar(RSeq(<<Lit("."), PrereleaseIdent>>))>>))>>)),
               ROpt(RSeq(<<Lit("+"),
                           RGrp(5, RSeq(<<RSetPlus(IdentChar),
                                          RStar(RSeq(<<Lit("."), RSetPlus(IdentChar)>>))>>))>>))>>),
        5)

\* whether the match that starts at offset start follows a 'v' or 'V'
Tagged(content, start) == start > 0 /\ Ch(content, start) \in {"v", "V"}

\* a variant that takes the first match, tagged or not
FirstOfAll(content, ms) == IF Len(ms) = 0 THEN NoMatch ELSE Head(ms)

\* the loop over allMatches: the first match not preceded by 'v' or 'V'
RECURSIVE FirstUntagged(_, _)
FirstUntagged(content, ms) ==
    IF Len(ms) = 0 THEN NoMatch
    ELSE IF Tagged(content, Head(ms).start) THEN FirstUntagged(content, Tail(ms))
    ELSE Head(ms)

\* findAndReplaceSemver: the file system after the call and the error ("" for nil)
findAndReplaceSemver(fs, filepath, newVersion) ==
    IF filepath \notin DOMAIN fs THEN [files |-> fs, err |-> "failed to read file"]
    ELSE
    With(fs[filepath], LAMBDA content :
    With(FindAll(SemverRegexp, content), LAMBDA allMatches :
        IF Len(allMatches) = 0 THEN [files |-> fs, err |-> "no semantic version found in file"]
        ELSE With(FirstUntagged(content, allMatches), LAMBDA validMatch :
            IF ~validMatch.ok THEN [files |-> fs, err |-> "no semantic version found in file"]
            ELSE LET matchedVersion == Slice(content, validMatch.start, validMatch.end)
                     newContent == Replace1(content, matchedVersion, newVersion)
                 IN  [files |-> [fs EXCEPT ![filepath] = newContent], err |-> ""])))

(***************************************************************************)
(* SpecFinder: findAndReplaceSemver applied to a drawn file and version.   *)
(***************************************************************************)
MaxTokens == 3

\* pieces of file content: tags, versions followed by a blank, other text
FinderTokens == {"v", "V", "1.2.3 ", "11.2.3 ", "2.0.0-rc.1+b.5 ", "x\n"}

RECURSIVE TokenStrings(_)
TokenStrings(n) ==
    IF n = 0 THEN {""}
    ELSE LET shorter == TokenStrings(n - 1)
         IN  shorter \cup { s \o tok : s \in shorter, tok \in FinderTokens }

FinderPath == "bump.txt"

InitFinder ==
    /\ \E content \in TokenStrings(MaxTokens) : files = [p \in {FinderPath} |-> content]
    /\ input \in [filepath : {FinderPath}, newVersion : {"3.0.0", "1.2.4-0"}]
    /\ repo = EmptyRepo
    /\ call = NoCall
    /\ ret = NoRet
    /\ before = [files |-> NoFiles, repo |-> EmptyRepo]
    /\ ncalls = 0

FindAndReplaceSemverCall ==
    /\ call.op = "none"
    /\ \E r \in {findAndReplaceSemver(files, input.filepath, input.newVersion)} :
           /\ files' = r.files
           /\ ret' = [err |-> r.err]
    /\ call' = [op |-> "findAndReplaceSemver"]
    /\ before' = [files |-> files, repo |-> repo]
    /\ ncalls' = ncalls + 1
    /\ UNCHANGED <<repo, input>>

NextFinder == FindAndReplaceSemverCall

SpecFinder == InitFinder /\ [][NextFinder]_vars

\* the semver occurrences of a content, and the first un-tagged one
SemverMatches(content) == FindAll(SemverRegexp, content)
FirstBare(content) == FirstUntagged(content, SemverMatches(content))

\* C6: every semver occurrence that follows a 'v' or 'V' is byte-identical,
\* tag included, after findAndReplaceSemver (at its offset, moved by the
\* length change when it lies after the replaced occurrence).
C6_TaggedVersionsUntouched ==
    (call.op = "findAndReplaceSemver")
    => LET old == before.files[FinderPath]
           new == files[FinderPath]
           ms == SemverMatches(old)
           bare == FirstBare(old)
           shift(m) == IF bare.ok /\ m.start >= bare.end THEN Len(new) - Len(old) ELSE 0
       IN  \A i \in 1..Len(ms) :
              Tagged(old, ms[i].start)
              => Slice(new, ms[i].start - 1 + shift(ms[i]), ms[i].end + shift(ms[i]))
                    = Slice(old, ms[i].start - 1, ms[i].end)

\* C7: when the file holds a semver not preceded by 'v' or 'V', exactly the
\* first such match is replaced by the new version and every byte outside
\* that match is unchanged.
C7_FirstBareMatchReplaced ==
    (call.op = "findAndReplaceSemver" /\ FirstBare(before.files[FinderPath]).ok)
    => LET old == before.files[FinderPath]
           bare == FirstBare(old)
       IN  /\ ret.err = ""
           /\ files[FinderPath] =
                 Slice(old, 0, bare.start) \o input.newVersion \o Slice(old, bare.end, Len(old))

\* C18: when the file holds no semver free of a 'v'/'V' prefix (none at all, or
\* only tagged ones), findAndReplaceSemver returns an error and the content of
\* the file is byte-identical to what it was.
C18_NoBareSemverNoChange ==
    (/\ call.op = "findAndReplaceSemver"
     /\ With(SemverMatches(before.files[FinderPath]), LAMBDA ms :
            \A i \in 1..Len(ms) : Tagged(before.files[FinderPath], ms[i].start)))
    => (ret.err = "no semantic version found in file" /\ files = before.files)

\* a file whose only version carries a tag was left as it was
C18_Witness ==
    /\ call.op = "findAndReplaceSemver"
    /\ before.files[FinderPath] = "x\nV2.0.0-rc.1+b.5 "
    /\ ret.err = "no semantic version found in file"
    /\ files = before.files

(***************************************************************************)
(* The version scanner and rewriter (bump-in files).                       *)
(***************************************************************************)
Quotes == {"\"", "'"}

\* \d+\.\d+\.\d+(?:-[a-zA-Z0-9.-]+)?
VersionDigits ==
    RSeq(<<RSetPlus(Digit), Lit("."), RSetPlus(Digit), Lit("."), RSetPlus(Digit),
           ROpt(RSeq(<<Lit("-"), RSetPlus(Letter \cup Digit \cup {".", "-"})>>))>>)

OptTag == RSetOpt({"v"})                        \* v?
OptTagI == RSetOpt({"v", "V"})                  \* v? under (?i)

VersionPattern(tree, groups, name) == [Pattern |-> Regexp(tree, groups), Name |-> name]

\* (?i)(version\s*[:=]\s*["']?)v?(...)(["']?), registered twice
AssignmentTree ==
    RSeq(<<RGrp(1, RSeq(<<LitI("version"), RSetStar(Space), RSet({":", "="}),
                          RSetStar(Space), RSetOpt(Quotes)>>)),
           OptTagI, RGrp(2, VersionDigits), RGrp(3, RSetOpt(Quotes))>>)

CommonVersionPatterns == <<
    VersionPattern(
        RSeq(<<RGrp(1, RSeq(<<Lit("\"version\""), RSetStar(Space), Lit(":"),
                              RSetStar(Space), Lit("\"")>>)),
               OptTag, RGrp(2, VersionDigits), RGrp(3, Lit("\""))>>),
        3, "JSON version field"),
    VersionPattern(AssignmentTree, 3, "VERSION assignment"),
    VersionPattern(
        RSeq(<<RGrp(1, RSeq(<<Lit("@version"), RSetPlus(Space)>>)),
               OptTag, RGrp(2, VersionDigits)>>),
        2, "doc comment version"),
    VersionPattern(
        RSeq(<<RGrp(1, Lit("<version>")), OptTag, RGrp(2, VersionDigits),
               RGrp(3, Lit("</version>"))>>),
        3, "XML version tag"),
    VersionPattern(AssignmentTree, 3, "version assignment"),
    VersionPattern(
        RSeq(<<RGrp(1, RSeq(<<Lit("#"), RSetStar(Space), LitI("version"), RSetPlus(Space)>>)),
               OptTagI, RGrp(2, VersionDigits)>>),
        2, "markdown version header"),
    VersionPattern(
        RSeq(<<RGrp(1, RSeq(<<LitI("current"), RSetPlus(Space), LitI("version"),
                              RAnyLazyStar>>)),
               OptTagI, RGrp(2, VersionDigits)>>),
        2, "current version text"),
    VersionPattern(
        RSeq(<<RGrp(1, Lit("@")), OptTag, RGrp(2, VersionDigits),
               RGrp(3, RAlt(<<RSet(Space), REol>>))>>),
        3, "at version"),
    VersionPattern(
        RSeq(<<RGrp(1, RSeq(<<LitI("install"), RSetPlus(Space), LitI("version"),
                              RSetPlus(Space)>>)),
               OptTagI, RGrp(2, VersionDigits)>>),
        2, "install version text"),
    VersionPattern(
        RSeq(<<RGrp(1, RSeq(<<Lit("version"), RSetStar(Space), Lit("="),
                              RSetStar(Space), Lit("\"")>>)),
               OptTag, RGrp(2, VersionDigits), RGrp(3, Lit("\""))>>),
        3, "TOML version field") >>

MainVersionPatterns == <<
    VersionPattern(
        RSeq(<<RBol, RSetStar(Space), Lit("\"version\""), RSetStar(Space), Lit(":"),
               RSetStar(Space), Lit("\""), OptTag, RGrp(1, VersionDigits), Lit("\"")>>),
        1, "root JSON version field"),
    VersionPattern(
        RSeq(<<RBol, RSetStar(Space), Lit("version"), RSetStar(Space), Lit("="),
               RSetStar(Space), Lit("\""), OptTag, RGrp(1, VersionDigits), Lit("\"")>>),
        1, "root TOML version field"),
    VersionPattern(
        RSeq(<<RBol, RSetStar(Space), LitI("version"), RSetStar(Space), RSet({":", "="}),
               RSetStar(Space), RSetOpt(Quotes), OptTagI, RGrp(1, VersionDigits),
               RSetOpt(Quotes)>>),
        1, "root VERSION assignment") >>

\* the concatenation of a sequence of sequences
RECURSIVE FlattenRange(_, _, _)
FlattenRange(ss, lo, hi) ==
    IF lo > hi THEN <<>>
    ELSE IF lo = hi THEN ss[lo]
    ELSE FlattenRange(ss, lo, (lo + hi) \div 2) \o FlattenRange(ss, ((lo + hi) \div 2) + 1, hi)

Flatten(ss) == FlattenRange(ss, 1, Len(ss))

\* the elements of seq at the indices in K, in ascending index order
Pick(seq, K) ==
    [n \in 1..Cardinality(K) |-> seq[CHOOSE k \in K : Cardinality({ j \in K : j < k }) = n - 1]]

\* strings.TrimLeft(s, cutset)
TrimLeft(s, cutset) ==
    LET n == CHOOSE k \in 0..Len(s) :
                 (\A j \in 1..k : Ch(s, j) \in cutset) /\ (k = Len(s) \/ Ch(s, k + 1) \notin cutset)
    IN  SubSeq(s, n + 1, Len(s))

\* strings.TrimSpace
TrimSpace(s) ==
    LET l == TrimLeft(s, Space)
        n == CHOOSE k \in 0..Len(l) :
                 (\A j \in (k + 1)..Len(l) : Ch(l, j) \in Space) /\ (k = 0 \/ Ch(l, k) \notin Space)
    IN  SubSeq(l, 1, n)

\* the VersionMatch the scanner records for one match m of vp on a line
VersionMatch(line, lineNum, m, vp) ==
    [Line |-> lineNum,
     StartIndex |-> m.start,
     EndIndex |-> m.end,
     FullMatch |-> Slice(line, m.start, m.end),
     Version |-> TrimPrefix(Slice(line, m.caps[2][1], m.caps[2][2]), "v"),
     Pattern |-> vp.Name,
     Prefix |-> Slice(line, m.caps[1][1], m.caps[1][2]),
     Suffix |-> IF vp.Pattern.groups >= 3 THEN Slice(line, m.caps[3][1], m.caps[3][2]) ELSE ""]

\* every match of every common pattern on one line, in pattern order
LineCandidates(line, lineNum) ==
    Flatten([p \in 1..Len(CommonVersionPatterns) |->
        With(CommonVersionPatterns[p], LAMBDA vp :
        With(IF vp.Pattern.groups >= 2 THEN FindAll(vp.Pattern, line) ELSE <<>>, LAMBDA ms :
            [k \in 1..Len(ms) |-> VersionMatch(line, lineNum, ms[k], vp)]))])

\* a variant that tells candidates apart by line and version, not by span
UnseenByVersion(cands) ==
    Pick(cands, { k \in 1..Len(cands) :
                    \A j \in 1..(k - 1) :
                        <<cands[j].Line, cands[j].Version>> # <<cands[k].Line, cands[k].Version>> })

\* the candidates in order, without those whose (line, start, end) an earlier one has
Unseen(cands) ==
    Pick(cands, { k \in 1..Len(cands) :
                    \A j \in 1..(k - 1) :
                        <<cands[j].Line, cands[j].StartIndex, cands[j].EndIndex>>
                            # <<cands[k].Line, cands[k].StartIndex, cands[k].EndIndex>> })

FindVersionsInFile(fs, filePath) ==
    IF filePath \notin DOMAIN fs THEN [matches |-> <<>>, err |-> "reading file"]
    ELSE
    With(Split(fs[filePath], "\n"), LAMBDA lines :
        [matches |-> Unseen(Flatten([l \in 1..Len(lines) |-> LineCandidates(lines[l], l)])),
         err |-> ""])


NoVersionMatch ==
    [Line |-> 0, StartIndex |-> 0, EndIndex |-> 0, FullMatch |-> "", Version |-> "",
     Pattern |-> "", Prefix |-> "", Suffix |-> ""]

\* the VersionMatch built for a root pattern: prefix and suffix are rebuilt by
\* splitting the matched text at the version, and only when it holds a quote
MainVersionMatch(line, lineNum, m, vp) ==
    With(Slice(line, m.start, m.end), LAMBDA full :
    With(TrimPrefix(Slice(line, m.caps[1][1], m.caps[1][2]), "v"), LAMBDA version :
    With(Split(full, version), LAMBDA parts :
    With(Contains(full, "\"") /\ Len(parts) >= 2, LAMBDA rebuilt :
        [Line |-> lineNum,
         StartIndex |-> m.start,
         EndIndex |-> m.end,
         FullMatch |-> full,
         Version |-> version,
         Pattern |-> vp.Name,
         Prefix |-> IF rebuilt THEN parts[1] ELSE "",
         Suffix |-> IF rebuilt THEN parts[2] ELSE ""]))))

Max(S) == CHOOSE x \in S : \A y \in S : y <= x

\* the JSON heuristic: a line that starts with "version" after at most two
\* blanks or tabs
LooksTopLevel(line) ==
    With(TrimLeft(line, {" ", "\t"}), LAMBDA trimmed :
        HasPrefix(trimmed, "\"version\"") /\ Len(line) - Len(trimmed) <= 2)

\* the TOML heuristic: walking up at most nine lines from the match, a line
\* holding [package] is met before any other section header
InPackageSection(lines, lineNum) ==
    LET isPackage(j) == Contains(lines[j], "[package]")
        isSection(j) == With(TrimSpace(lines[j]), LAMBDA t : HasPrefix(t, "[") /\ HasSuffix(t, "]"))
    IN  With({ j \in 1..(lineNum - 1) : j > lineNum - 10 /\ (isPackage(j) \/ isSection(j)) },
             LAMBDA stops : stops # {} /\ isPackage(Max(stops)))

\* the first line a root pattern matches, with the first such pattern
FirstRootMatch(lines) ==
    With([l \in 1..Len(lines) |->
            [p \in 1..Len(MainVersionPatterns) |->
                FindSubmatchIndex(MainVersionPatterns[p].Pattern, lines[l])]], LAMBDA hit :
    With({ l \in 1..Len(lines) : \E p \in 1..Len(MainVersionPatterns) : hit[l][p].ok }, LAMBDA rootLines :
        IF rootLines = {} THEN [found |-> FALSE, match |-> NoVersionMatch]
        ELSE With(Min(rootLines), LAMBDA l :
             With(Min({ q \in 1..Len(MainVersionPatterns) : hit[l][q].ok }), LAMBDA p :
                [found |-> TRUE,
                 match |-> MainVersionMatch(lines[l], l, hit[l][p], MainVersionPatterns[p])]))))

\* the fallback: the scanner's matches, a preferred one by file type, else the first
PreferredMatch(filePath, lines, scan) ==
    With(scan.matches, LAMBDA matches :
        IF scan.err # "" THEN [found |-> FALSE, match |-> NoVersionMatch, err |-> scan.err]
        ELSE IF Len(matches) = 0 THEN [found |-> FALSE, match |-> NoVersionMatch, err |-> ""]
        ELSE
        With(IF HasSuffix(filePath, ".json")
             THEN { i \in 1..Len(matches) :
                      matches[i].Line <= Len(lines) /\ LooksTopLevel(lines[matches[i].Line]) }
             ELSE {}, LAMBDA json :
        With(IF HasSuffix(filePath, ".toml")
             THEN { i \in 1..Len(matches) :
                      matches[i].Line <= Len(lines) /\ InPackageSection(lines, matches[i].Line) }
             ELSE {}, LAMBDA toml :
            IF json # {} THEN [found |-> TRUE, match |-> matches[Min(json)], err |-> ""]
            ELSE IF toml # {} THEN [found |-> TRUE, match |-> matches[Min(toml)], err |-> ""]
            ELSE [found |-> TRUE, match |-> matches[1], err |-> ""])))

FindMainVersionInFile(fs, filePath) ==
    IF filePath \notin DOMAIN fs
    THEN [found |-> FALSE, match |-> NoVersionMatch, err |-> "reading file"]
    ELSE
    With(Split(fs[filePath], "\n"), LAMBDA lines :
    With(FirstRootMatch(lines), LAMBDA root :
        IF root.found THEN [found |-> TRUE, match |-> root.match, err |-> ""]
        ELSE PreferredMatch(filePath, lines, FindVersionsInFile(fs, filePath))))

\* the in-place sort of one line's matches by descending start offset
RECURSIVE SortDescending(_, _, _)
SortDescending(lv, i, j) ==
    IF i >= Len(lv) THEN lv
    ELSE IF j > Len(lv) THEN SortDescending(lv, i + 1, i + 2)
    ELSE IF lv[i].StartIndex < lv[j].StartIndex
    THEN SortDescending([lv EXCEPT ![i] = lv[j], ![j] = lv[i]], i, j + 1)
    ELSE SortDescending(lv, i, j + 1)

\* the new version, tagged when the matched text held "v" + version
VersionToUse(match, newVersion) ==
    IF Contains(match.FullMatch, "v" \o match.Version) THEN "v" \o newVersion ELSE newVersion

\* the matches lv[k..] applied to a line one after the other
RECURSIVE ApplyMatches(_, _, _, _)
ApplyMatches(line, lv, k, newVersion) ==
    IF k > Len(lv) THEN line
    ELSE With(lv[k], LAMBDA match :
            IF match.StartIndex >= 0 /\ match.EndIndex <= Len(line)
                  /\ match.StartIndex < match.EndIndex
            THEN ApplyMatches(Slice(line, 0, match.StartIndex)
                                \o match.Prefix \o VersionToUse(match, newVersion) \o match.Suffix
                                \o Slice(line, match.EndIndex, Len(line)),
                              lv, k + 1, newVersion)
            ELSE ApplyMatches(line, lv, k + 1, newVersion))

ReplaceVersionInFile(fs, filePath, newVersion, matches) ==
    IF filePath \notin DOMAIN fs THEN [files |-> fs, err |-> "reading file"]
    ELSE
    With(Split(fs[filePath], "\n"), LAMBDA lines :
    With([l \in 1..Len(lines) |->
            ApplyMatches(lines[l],
                         SortDescending(Pick(matches, { k \in 1..Len(matches) : matches[k].Line = l }),
                                        1, 2),
                         1, newVersion)], LAMBDA out :
        [files |-> [fs EXCEPT ![filePath] = Join(out, "\n")], err |-> ""]))

\* the rest of BumpVersionInFile and BumpAllVersionsInFile once the matches are chosen
ReplaceFound(fs, filePath, newVersion, matches) ==
    With(ReplaceVersionInFile(fs, filePath, newVersion, matches), LAMBDA r :
        IF r.err # "" THEN [files |-> r.files, bumped |-> FALSE, err |-> r.err]
        ELSE [files |-> r.files, bumped |-> TRUE, err |-> ""])

BumpVersionInFile(fs, filePath, newVersion) ==
    With(FindMainVersionInFile(fs, filePath), LAMBDA main :
        IF main.err # "" THEN [files |-> fs, bumped |-> FALSE, err |-> main.err]
        ELSE IF ~main.found THEN [files |-> fs, bumped |-> FALSE, err |-> ""]
        ELSE ReplaceFound(fs, filePath, newVersion, <<main.match>>))

BumpAllVersionsInFile(fs, filePath, newVersion) ==
    With(FindVersionsInFile(fs, filePath), LAMBDA scan :
        IF scan.err # "" THEN [files |-> fs, bumped |-> FALSE, err |-> scan.err]
        ELSE IF Len(scan.matches) = 0 THEN [files |-> fs, bumped |-> FALSE, err |-> ""]
        ELSE ReplaceFound(fs, filePath, newVersion, scan.matches))


(***************************************************************************)
(* SpecFile: the rewriter applied to a drawn file and version.  A file is  *)
(* drawn as a document, a sequence of lines; a line that holds a version   *)
(* is key, tag, version and rest, so that what a rewrite should have left  *)
(* of it can be told from the input.                                       *)
(***************************************************************************)
MaxPad == 1

TextLine(text) == [pre |-> text, tag |-> "", ver |-> "", post |-> "", role |-> "text"]
VersionLine(pre, tag, ver, post, role) ==
    [pre |-> pre, tag |-> tag, ver |-> ver, post |-> post, role |-> role]

RenderLine(ln) == ln.pre \o ln.tag \o ln.ver \o ln.post
Render(doc) == Join([l \in 1..Len(doc) |-> RenderLine(doc[l])], "\n")

Tags == {"", "v"}

\* a JSON object with a top-level version and one nested in "config"
TopField(tag, post) == VersionLine("  \"version\": \"", tag, "1.2.3", post, "top")
NestedInline(post) == VersionLine("  \"config\": {\"version\": \"", "", "9.9.9", post, "nested")
NestedOwnLine == VersionLine("    \"version\": \"", "", "9.9.9", "\"", "nested")

NestedJSONDocs ==
    UNION { { <<TextLine("{"), TopField(tag, "\","), NestedInline("\"}"), TextLine("}")>>,
              <<TextLine("{"), NestedInline("\"},"), TopField(tag, "\""), TextLine("}")>>,
              <<TextLine("{"), TopField(tag, "\","), TextLine("  \"config\": {"), NestedOwnLine,
                TextLine("  }"), TextLine("}")>>,
              <<TextLine("{"), TextLine("  \"config\": {"), NestedOwnLine, TextLine("  },"),
                TopField(tag, "\""), TextLine("}")>> } : tag \in Tags }

\* one version in each form the root and the common patterns accept
TargetLines ==
    { VersionLine(f[1], tag, f[2], f[3], "main") :
        tag \in Tags,
        f \in { <<"\"version\": \"", "1.2.3", "\"">>,
                <<"version = \"", "0.5.0", "\"">>,
                <<"VERSION=", "1.2.3", "">>,
                <<"Version: '", "1.2.3", "'">>,
                <<"@version ", "1.2.3", "">>,
                <<"<version>", "1.2.3", "</version>">>,
                <<"# Version ", "1.0.0", "">>,
                <<"Current version is ", "2.0.0-rc.1", "">>,
                <<"Current version: ", "1.0.0", "">>,
                <<"npm install pkg@", "1.2.3", "">>,
                <<"install version ", "1.2.3", " first">>,
                <<"{\"version\": \"", "1.2.3", "\"}">> } }

RECURSIVE Padding(_)
Padding(n) == IF n = 0 THEN <<>> ELSE <<TextLine("notes")>> \o Padding(n - 1)

TargetDocs ==
    { Padding(n) \o <<ln>> \o tail :
        n \in 0..MaxPad, ln \in TargetLines, tail \in {<<>>, <<TextLine("[end]")>>} }

FilePaths == {"package.json", "Cargo.toml", "VERSION"}

\* new versions: shorter and longer than the ones in the files, and one they hold
NewVersions == {"2.0.0", "1.2.4-rc.1", "1.2.3"}

FileInputs ==
    [filePath : {"package.json"}, doc : NestedJSONDocs, newVersion : NewVersions]
    \cup [filePath : FilePaths, doc : TargetDocs, newVersion : NewVersions]

InitFile ==
    /\ input \in FileInputs
    /\ files = [p \in {input.filePath} |-> Render(input.doc)]
    /\ repo = EmptyRepo
    /\ call = NoCall
    /\ ret = NoRet
    /\ before = [files |-> NoFiles, repo |-> EmptyRepo]
    /\ ncalls = 0

BumpVersionInFileCall ==
    /\ call.op = "none"
    /\ \E r \in {BumpVersionInFile(files, input.filePath, input.newVersion)} :
           /\ files' = r.files
           /\ ret' = [bumped |-> r.bumped, err |-> r.err]
    /\ call' = [op |-> "BumpVersionInFile"]
    /\ before' = [files |-> files, repo |-> repo]
    /\ ncalls' = ncalls + 1
    /\ UNCHANGED <<repo, input>>

BumpAllVersionsInFileCall ==
    /\ call.op = "none"
    /\ \E r \in {BumpAllVersionsInFile(files, input.filePath, input.newVersion)} :
           /\ files' = r.files
           /\ ret' = [bumped |-> r.bumped, err |-> r.err]
    /\ call' = [op |-> "BumpAllVersionsInFile"]
    /\ before' = [files |-> files, repo |-> repo]
    /\ ncalls' = ncalls + 1
    /\ UNCHANGED <<repo, input>>

FindVersionsInFileCall ==
    /\ call.op = "none"
    /\ \E r \in {FindVersionsInFile(files, input.filePath)} :
           ret' = [matches |-> r.matches, err |-> r.err]
    /\ call' = [op |-> "FindVersionsInFile"]
    /\ before' = [files |-> files, repo |-> repo]
    /\ ncalls' = ncalls + 1
    /\ UNCHANGED <<files, repo, input>>

NextFile == BumpVersionInFileCall \/ BumpAllVersionsInFileCall \/ FindVersionsInFileCall

SpecFile == InitFile /\ [][NextFile]_vars

\* the lines of the file after the call
LinesNow == Split(files[input.filePath], "\n")

\* C8: a line the rewriter changed holds the new version with exactly one
\* "v" before it when the version it replaced was tagged, and with no "v"
\* before it when it was not; for root-pattern and common-pattern matches.
C8_TagPreserved ==
    (call.op \in {"BumpVersionInFile", "BumpAllVersionsInFile"} /\ ret.bumped)
    => \A l \in 1..Len(input.doc) :
          LET ln == input.doc[l]
              now == LinesNow[l]
          IN  (ln.ver # "" /\ now # RenderLine(ln))
              => /\ Contains(now, input.newVersion)
                 /\ (ln.tag = "v") = Contains(now, "v" \o input.newVersion)
                 /\ ~Contains(now, "vv" \o input.newVersion)

\* C9: on a JSON file with a top-level "version" and a nested one,
\* BumpVersionInFile leaves the nested line byte-identical and writes the new
\* version into the top-level line, in either order and nested layout.
C9_OnlyTopLevelUpdated ==
    (call.op = "BumpVersionInFile" /\ input.doc \in NestedJSONDocs)
    => /\ ret.bumped
       /\ \A l \in 1..Len(input.doc) :
             /\ input.doc[l].role = "nested" => LinesNow[l] = RenderLine(input.doc[l])
             /\ input.doc[l].role = "top" => Contains(LinesNow[l], input.newVersion)

\* C24: after BumpVersionInFile or ReplaceVersionInFile the file differs from
\* the original only in the version characters of the replaced matches: every
\* line is as it was, or is its key, its tag, the new version and its rest,
\* byte for byte; also for an unquoted or single-quoted assignment.
C24_OnlyVersionChanged ==
    (call.op \in {"BumpVersionInFile", "BumpAllVersionsInFile"} /\ ret.bumped)
    => /\ Len(LinesNow) = Len(input.doc)
       /\ \A l \in 1..Len(input.doc) :
             With(input.doc[l], LAMBDA ln :
                 \/ LinesNow[l] = RenderLine(ln)
                 \/ ln.ver # "" /\ LinesNow[l] = ln.pre \o ln.tag \o input.newVersion \o ln.post)

\* the lines of the drawn file on which the scanner reports several matches
LinesWithSeveralMatches ==
    With(FindVersionsInFile(before.files, input.filePath).matches, LAMBDA ms :
        { l \in 1..Len(input.doc) : Cardinality({ k \in 1..Len(ms) : ms[k].Line = l }) >= 2 })

\* C25: when ReplaceVersionInFile, called by BumpAllVersionsInFile with every
\* match the scanner reports, gets several matches on one line, the resulting
\* line has the matched version replaced by the new version with no character
\* duplicated, dropped or left stale, whatever the length of the new version
\* and also when the reported spans overlap.
C25_SeveralMatchesOnOneLine ==
    (call.op = "BumpAllVersionsInFile" /\ ret.bumped)
    => \A l \in LinesWithSeveralMatches :
          With(input.doc[l], LAMBDA ln :
              LinesNow[l] = ln.pre \o ln.tag \o input.newVersion \o ln.post)

\* C26: rewriting a file with the version it already holds is a no-op on the
\* text: when BumpVersionInFile finds a main version V in the file (tagged or
\* not, quoted or not), BumpVersionInFile(file, V) leaves the content
\* byte-identical.
C26_SameVersionSameText ==
    (call.op = "BumpVersionInFile" /\ ret.bumped
        /\ FindMainVersionInFile(before.files, input.filePath).match.Version = input.newVersion)
    => files = before.files

\* the place of the pattern of a match in the registration order
PatternIndex(match) ==
    CHOOSE p \in 1..Len(CommonVersionPatterns) : CommonVersionPatterns[p].Name = match.Pattern

\* the spans <<start, end>> pattern p matches on a line
SpansOf(p, line) ==
    With(FindAll(CommonVersionPatterns[p].Pattern, line), LAMBDA ms :
        { <<ms[k].start, ms[k].end>> : k \in 1..Len(ms) })

\* C27: FindVersionsInFile reports matches in ascending line order and, within
\* a line, in pattern registration order; no two reported matches have the
\* same (line, start, end); a span several patterns match is reported once,
\* for the first-registered of them; and every span some pattern matches is
\* reported, so two different spans on one line both are, even with the same
\* version.
C27_ScanOrderAndSpans ==
    call.op = "FindVersionsInFile"
    => /\ ret.err = ""
       /\ \A j, k \in 1..Len(ret.matches) :
             j < k => /\ ret.matches[j].Line <= ret.matches[k].Line
                      /\ ret.matches[j].Line = ret.matches[k].Line
                           => PatternIndex(ret.matches[j]) <= PatternIndex(ret.matches[k])
                      /\ <<ret.matches[j].Line, ret.matches[j].StartIndex, ret.matches[j].EndIndex>>
                           # <<ret.matches[k].Line, ret.matches[k].StartIndex, ret.matches[k].EndIndex>>
       /\ \A l \in 1..Len(input.doc) :
             With([p \in 1..Len(CommonVersionPatterns) |-> SpansOf(p, RenderLine(input.doc[l]))],
                  LAMBDA spans :
                 /\ \A p \in 1..Len(CommonVersionPatterns) : \A s \in spans[p] :
                       \E k \in 1..Len(ret.matches) :
                          /\ <<ret.matches[k].Line, ret.matches[k].StartIndex, ret.matches[k].EndIndex>>
                               = <<l, s[1], s[2]>>
                          /\ PatternIndex(ret.matches[k])
                               = Min({ q \in 1..Len(CommonVersionPatterns) : s \in spans[q] })
                 /\ \A k \in 1..Len(ret.matches) :
                       ret.matches[k].Line = l
                         => <<ret.matches[k].StartIndex, ret.matches[k].EndIndex>>
                               \in spans[PatternIndex(ret.matches[k])])

\* on the line "Current version: 1.0.0" two patterns match different spans
\* holding the same version and both are reported; the span of the assignment,
\* which two patterns match, is reported for the first-registered one
C27_Witness ==
    /\ call.op = "FindVersionsInFile"
    /\ Len(input.doc) = 1
    /\ RenderLine(input.doc[1]) = "Current version: 1.0.0"
    /\ Len(ret.matches) = 2
    /\ ret.matches[1].Pattern = "VERSION assignment"
    /\ <<ret.matches[1].StartIndex, ret.matches[1].EndIndex>> = <<8, 22>>
    /\ ret.matches[2].Pattern = "current version text"
    /\ <<ret.matches[2].StartIndex, ret.matches[2].EndIndex>> = <<0, 22>>
    /\ ret.matches[1].Version = ret.matches[2].Version


(***************************************************************************)
(* The bump workflow: paths, git, the declaration file, go.mod, imports.   *)
(* Paths are clean and relative to the repository root, which is also the  *)
(* working directory.  A repository is its HEAD tree (path -> content),    *)
(* the staged paths, the commits made, the tags and the latest tag.        *)
(***************************************************************************)
\* filepath.Dir
Dir(path) ==
    With({ i \in 1..Len(path) : Ch(path, i) = "/" }, LAMBDA at :
        IF at = {} THEN "." ELSE SubSeq(path, 1, Max(at) - 1))

\* filepath.Join(dir, name)
JoinPath(dir, name) == IF dir = "." THEN name ELSE dir \o "/" \o name

\* whether path lies in dir or below it
Under(dir, path) == dir = "." \/ HasPrefix(path, dir \o "/")

\* os.WriteFile: path created or overwritten
WriteFile(fs, path, content) ==
    [p \in DOMAIN fs \cup {path} |-> IF p = path THEN content ELSE fs[p]]

\* git status --porcelain: the paths that differ from HEAD and the untracked ones
Status(fs, rp) ==
    { p \in DOMAIN fs \cup DOMAIN rp.head :
        p \notin DOMAIN fs \/ p \notin DOMAIN rp.head \/ fs[p] # rp.head[p] }

\* git describe --tags --abbrev=0 run in dir, without the leading "v"
getVersionFromGitDir(fs, rp, dir) ==
    IF ~rp.available \/ rp.latest = "" \/ ~\E p \in DOMAIN fs : Under(dir, p)
    THEN [v |-> "", err |-> "failed to get version from git"]
    ELSE [v |-> TrimPrefix(TrimSpace(rp.latest), "v"), err |-> ""]

\* (?m)^package\s+(\w+)
PackageRegexp ==
    Regexp(RSeq(<<RBolM, Lit("package"), RSetPlus(Space), RGrp(1, RSetPlus(Word))>>), 1)

\* Version\s*=\s*"([^"]+)"
VersionRegexp ==
    Regexp(RSeq(<<Lit("Version"), RSetStar(Space), Lit("="), RSetStar(Space), Lit("\""),
                  RGrp(1, RNotPlus({"\""})), Lit("\"")>>), 1)

\* the first capture group of the first match of re in s, "" without a match
FirstGroup(re, s) ==
    With(FindSubmatchIndex(re, s), LAMBDA m :
        IF m.ok THEN Slice(s, m.caps[1][1], m.caps[1][2]) ELSE "")

\* the package of the file at path, else of a Go file next to it, else "version"
determinePackageName(fs, path) ==
    With(IF path \in DOMAIN fs THEN FirstGroup(PackageRegexp, fs[path]) ELSE "", LAMBDA own :
        IF own # "" THEN own
        ELSE With({ p \in DOMAIN fs : Dir(p) = Dir(path) /\ HasSuffix(p, ".go")
                                        /\ ~HasSuffix(p, "_test.go") }, LAMBDA siblings :
             With({ FirstGroup(PackageRegexp, fs[p]) : p \in siblings }, LAMBDA pkgs :
                IF pkgs = {} \/ "" \in pkgs THEN "version"
                ELSE CHOOSE pkgName \in pkgs : TRUE)))

writeVersionFile(fs, path, newVersion) ==
    WriteFile(fs, path,
              "package " \o determinePackageName(fs, path)
                \o "\n\nvar (\n\tVersion = \"" \o newVersion \o "\"\n)\n")

\* a variant that creates an absent file with "dev" whatever the tags are
readCurrentVersionDevOnly(fs, rp, path) ==
    IF path \notin DOMAIN fs
    THEN [files |-> writeVersionFile(fs, path, "dev"), version |-> "dev", err |-> ""]
    ELSE With(FindSubmatchIndex(VersionRegexp, fs[path]), LAMBDA m :
            IF m.ok
            THEN [files |-> fs, version |-> Slice(fs[path], m.caps[1][1], m.caps[1][2]), err |-> ""]
            ELSE [files |-> fs, version |-> "", err |-> "failed to find version string in file"])

\* (files, version, err): an absent file is created from the latest tag or "dev"
readCurrentVersion(fs, rp, path) ==
    IF path \notin DOMAIN fs
    THEN With(getVersionFromGitDir(fs, rp, Dir(path)), LAMBDA fromGit :
            IF fromGit.err = ""
            THEN [files |-> writeVersionFile(fs, path, fromGit.v), version |-> fromGit.v, err |-> ""]
            ELSE [files |-> writeVersionFile(fs, path, "dev"), version |-> "dev", err |-> ""])
    ELSE With(FindSubmatchIndex(VersionRegexp, fs[path]), LAMBDA m :
            IF m.ok
            THEN [files |-> fs, version |-> Slice(fs[path], m.caps[1][1], m.caps[1][2]), err |-> ""]
            ELSE [files |-> fs, version |-> "", err |-> "failed to find version string in file"])

\* golang.org/x/mod/semver: vMAJOR[.MINOR[.PATCH[-PRERELEASE][+BUILD]]]
ModSemverRegexp ==
    Regexp(
        RSeq(<<RBol, Lit("v"), RGrp(1, NumericIdent),
               ROpt(RSeq(<<Lit("."), NumericIdent,
                    ROpt(RSeq(<<Lit("."), NumericIdent,
                         ROpt(RSeq(<<Lit("-"), PrereleaseIdent,
                                     RStar(RSeq(<<Lit("."), PrereleaseIdent>>))>>)),
                         ROpt(RSeq(<<Lit("+"), RSetPlus(IdentChar),
                                     RStar(RSeq(<<Lit("."), RSetPlus(IdentChar)>>))>>))>>))>>)),
               REol>>),
        1)

\* semver.IsValid
IsValid(v) == FindSubmatchIndex(ModSemverRegexp, v).ok

\* semver.Major: "v" and the major number of a valid version, else ""
Major(v) ==
    With(FirstGroup(ModSemverRegexp, v), LAMBDA maj : IF maj = "" THEN "" ELSE "v" \o maj)

\* modfile.Parse, reduced to the module directive: the lines of the file are
\* "module <path>", "go <version>" or blank; anything else is a syntax error
ModLineKind(line) ==
    IF TrimSpace(line) = "" THEN "blank"
    ELSE IF HasPrefix(line, "module ") THEN "module"
    ELSE IF HasPrefix(line, "go ") THEN "go"
    ELSE "error"

\* (ok, hasModule, path): the parsed go.mod
ParseGoMod(data) ==
    With(Split(data, "\n"), LAMBDA lines :
    With({ i \in 1..Len(lines) : ModLineKind(lines[i]) = "module" }, LAMBDA mods :
        IF \E i \in 1..Len(lines) : ModLineKind(lines[i]) = "error"
        THEN [ok |-> FALSE, hasModule |-> FALSE, path |-> ""]
        ELSE IF mods = {} THEN [ok |-> TRUE, hasModule |-> FALSE, path |-> ""]
        ELSE [ok |-> TRUE, hasModule |-> TRUE,
              path |-> TrimSpace(TrimPrefix(lines[Min(mods)], "module "))]))

\* f.Format() after the module path was set to newPath
FormatGoMod(data, newPath) ==
    With(Split(data, "\n"), LAMBDA lines :
        Join([i \in 1..Len(lines) |->
                IF ModLineKind(lines[i]) = "module" THEN "module " \o newPath ELSE lines[i]], "\n"))

\* module.splitGopkgIn: a gopkg.in path without its trailing .vN
SplitGopkgIn(path) ==
    With(IF HasSuffix(path, "-unstable") THEN Len(path) - 9 ELSE Len(path), LAMBDA e :
    With(Min({ i \in 0..e : \A j \in (i + 1)..e : Ch(path, j) \in Digit }), LAMBDA i :
        IF i <= 1 \/ Ch(path, i) # "v" \/ Ch(path, i - 1) # "."
        THEN [prefix |-> path, pathMajor |-> "", ok |-> FALSE]
        ELSE With(SubSeq(path, i - 1, Len(path)), LAMBDA pathMajor :
            IF Len(pathMajor) <= 2
               \/ (Len(pathMajor) > 3 /\ Ch(pathMajor, 3) = "0" /\ pathMajor # ".v0-unstable")
            THEN [prefix |-> path, pathMajor |-> "", ok |-> FALSE]
            ELSE [prefix |-> SubSeq(path, 1, i - 2), pathMajor |-> pathMajor, ok |-> TRUE])))

\* module.SplitPathVersion: the path without a trailing /vN (N >= 2)
SplitPathVersion(path) ==
    IF HasPrefix(path, "gopkg.in/") THEN SplitGopkgIn(path) ELSE
    With({ i \in 0..Len(path) : \A j \in (i + 1)..Len(path) : Ch(path, j) \in Digit \cup {"."} },
         LAMBDA tails :
    With(Min(tails), LAMBDA i :
        IF i <= 1 \/ i = Len(path) \/ Ch(path, i) # "v" \/ Ch(path, i - 1) # "/"
        THEN [prefix |-> path, pathMajor |-> "", ok |-> TRUE]
        ELSE IF (\E j \in (i + 1)..Len(path) : Ch(path, j) = ".") \/ Ch(path, i + 1) = "0"
                  \/ SubSeq(path, i - 1, Len(path)) = "/v1"
             THEN [prefix |-> path, pathMajor |-> "", ok |-> FALSE]
             ELSE [prefix |-> SubSeq(path, 1, i - 2),
                   pathMajor |-> SubSeq(path, i - 1, Len(path)), ok |-> TRUE]))

\* a variant that puts the suffix after the whole old path
NewModPathStacked(oldPath, newVersion) ==
    With(Major("v" \o newVersion), LAMBDA maj :
        oldPath \o (IF maj = "v0" \/ maj = "v1" THEN "" ELSE "/" \o maj))

\* the module path a release of newVersion belongs under
NewModPath(oldPath, newVersion) ==
    With(Major("v" \o newVersion), LAMBDA maj :
        SplitPathVersion(oldPath).prefix \o (IF maj = "v0" \/ maj = "v1" THEN "" ELSE "/" \o maj))

\* (files, err)
updateGoMod(fs, modDir, newVersion) ==
    With(JoinPath(modDir, "go.mod"), LAMBDA modPath :
        IF modPath \notin DOMAIN fs THEN [files |-> fs, err |-> "reading go.mod"]
        ELSE With(ParseGoMod(fs[modPath]), LAMBDA f :
            IF ~f.ok THEN [files |-> fs, err |-> "parsing go.mod"]
            ELSE IF ~f.hasModule THEN [files |-> fs, err |-> "module directive not found"]
            ELSE [files |-> WriteFile(fs, modPath,
                                      FormatGoMod(fs[modPath], NewModPath(f.path, newVersion))),
                  err |-> ""]))

\* the nearest directory at or above startDir that holds a go.mod, "" if none
RECURSIVE locateGoModDir(_, _)
locateGoModDir(fs, d) ==
    IF JoinPath(d, "go.mod") \in DOMAIN fs THEN d
    ELSE IF Dir(d) = d THEN ""
    ELSE locateGoModDir(fs, Dir(d))


\* the paths of the working tree in the order filepath.WalkDir visits them (lexical)
WalkOrder ==
    <<"README.md", "go.mod", "main.go", "main_test.go", "package.json", "vendor/dep.go", "version.go">>

\* the files WalkDir reaches from modDir that satisfy Keep, in walk order;
\* directories named vendor are not entered
Walk(fs, modDir, Keep(_)) ==
    Pick(WalkOrder, { k \in 1..Len(WalkOrder) :
        /\ WalkOrder[k] \in DOMAIN fs
        /\ Under(modDir, WalkOrder[k])
        /\ ~Contains("/" \o WalkOrder[k], "/vendor/")
        /\ Keep(WalkOrder[k]) })

\* parser.ParseFile succeeds: the source opens with its package clause
ParsesAsGo(src) == With(FindSubmatchIndex(PackageRegexp, src), LAMBDA m : m.ok /\ m.start = 0)

\* the import path of a line of the form import "path", "" for any other line
ImportPath(line) ==
    IF HasPrefix(line, "import \"") /\ HasSuffix(line, "\"") /\ Len(line) > 9
    THEN SubSeq(line, 9, Len(line) - 1) ELSE ""

\* whether some import of src starts with oldMod
ImportsModule(src, oldMod) ==
    With(Split(src, "\n"), LAMBDA lines :
        \E i \in 1..Len(lines) : ImportPath(lines[i]) # "" /\ HasPrefix(ImportPath(lines[i]), oldMod))

\* src printed again with every import that starts with oldMod moved to newMod
RewriteImports(src, oldMod, newMod) ==
    With(Split(src, "\n"), LAMBDA lines :
        Join([i \in 1..Len(lines) |->
                With(ImportPath(lines[i]), LAMBDA p :
                    IF p # "" /\ HasPrefix(p, oldMod)
                    THEN "import \"" \o Replace1(p, oldMod, newMod) \o "\""
                    ELSE lines[i])], "\n"))

\* the non-test .go files under modDir that parse and import from oldMod
scanSelfImports(fs, modDir, oldMod, newMod) ==
    Walk(fs, modDir, LAMBDA path :
        /\ HasSuffix(path, ".go") /\ ~HasSuffix(path, "_test.go")
        /\ ParsesAsGo(fs[path]) /\ ImportsModule(fs[path], oldMod))

\* (files, modified, err): every .go file under modDir rewritten in walk order,
\* up to the first one that does not parse
updateSelfImports(fs, modDir, oldMod, newMod) ==
    With(Walk(fs, modDir, LAMBDA path : HasSuffix(path, ".go")), LAMBDA goFiles :
    With(Min({ k \in 1..Len(goFiles) : ~ParsesAsGo(fs[goFiles[k]]) } \cup {Len(goFiles) + 1}),
         LAMBDA stop :
    With({ goFiles[k] : k \in { j \in 1..(stop - 1) : ImportsModule(fs[goFiles[j]], oldMod) } },
         LAMBDA changed :
        [files |-> [p \in DOMAIN fs |->
                        IF p \in changed THEN RewriteImports(fs[p], oldMod, newMod) ELSE fs[p]],
         modified |-> Pick(goFiles, { k \in 1..Len(goFiles) : goFiles[k] \in changed }),
         err |-> IF stop <= Len(goFiles) THEN "failed to parse Go file" ELSE ""])))

\* a check that lets every uncommitted change pass
checkUncommittedFilesAllowAll(fs, rp, allowed) ==
    IF ~rp.available THEN "failed to check git status" ELSE ""

\* git status --porcelain checked against the allowed paths
checkUncommittedFiles(fs, rp, allowed) ==
    IF ~rp.available THEN "failed to check git status"
    ELSE IF Status(fs, rp) \subseteq { allowed[i] : i \in 1..Len(allowed) } THEN ""
    ELSE "working directory is dirty; uncommitted files not included in commit"

\* the tree of HEAD once the paths in staged are committed as they are in fs
CommitTree(fs, rp, staged) ==
    [p \in (DOMAIN rp.head \ staged) \cup (staged \cap DOMAIN fs) |->
        IF p \in staged THEN fs[p] ELSE rp.head[p]]

\* a variant whose commit message carries the "v" of the tag
gitCommitTaggedMessage(fs, rp, newVersion, extraFiles) ==
    With({ extraFiles[i] : i \in 1..Len(extraFiles) }, LAMBDA paths :
        IF ~rp.available \/ \E p \in paths : p \notin DOMAIN fs /\ p \notin DOMAIN rp.head
        THEN [repo |-> rp, err |-> "git add failed"]
        ELSE With(rp.staged \cup (paths \cap Status(fs, rp)), LAMBDA staged :
            IF staged = {}
            THEN [repo |-> rp, err |-> "git commit failed"]
            ELSE With([rp EXCEPT !.head = CommitTree(fs, rp, staged), !.staged = {},
                                 !.commits = Append(@, [msg |-> "v" \o newVersion, files |-> staged,
                                                     added |-> paths])],
                      LAMBDA committed :
                IF ("v" \o newVersion) \in rp.tags
                THEN [repo |-> committed, err |-> "git tag failed"]
                ELSE [repo |-> [committed EXCEPT !.tags = @ \cup {"v" \o newVersion},
                                                 !.latest = "v" \o newVersion],
                      err |-> ""])))

\* (repo, err): git add of the files, git commit -m newVersion, git tag v<newVersion>;
\* a commit records its message, the paths it changed and the paths given to git add
gitCommit(fs, rp, newVersion, extraFiles) ==
    With({ extraFiles[i] : i \in 1..Len(extraFiles) }, LAMBDA paths :
        IF ~rp.available \/ \E p \in paths : p \notin DOMAIN fs /\ p \notin DOMAIN rp.head
        THEN [repo |-> rp, err |-> "git add failed"]
        ELSE With(rp.staged \cup (paths \cap Status(fs, rp)), LAMBDA staged :
            IF staged = {}
            THEN [repo |-> rp, err |-> "git commit failed"]
            ELSE With([rp EXCEPT !.head = CommitTree(fs, rp, staged), !.staged = {},
                                 !.commits = Append(@, [msg |-> newVersion, files |-> staged,
                                                     added |-> paths])],
                      LAMBDA committed :
                IF ("v" \o newVersion) \in rp.tags
                THEN [repo |-> committed, err |-> "git tag failed"]
                ELSE [repo |-> [committed EXCEPT !.tags = @ \cup {"v" \o newVersion},
                                                 !.latest = "v" \o newVersion],
                      err |-> ""])))


(***************************************************************************)
(* Run and DryRun.  A call is carried through its steps as a record: the   *)
(* file system and repository as the call has left them so far, the        *)
(* arguments, the locals of the function, the error returned (if any) and  *)
(* the steps reached.  A step passes a failed call on untouched.           *)
(***************************************************************************)
NewCall(fs, rp, versionFilePath, versionArg, extraFiles, bumpFiles) ==
    [fs |-> fs, rp |-> rp, versionFilePath |-> versionFilePath, versionArg |-> versionArg,
     extraFiles |-> extraFiles, bumpFiles |-> bumpFiles,
     OldVersion |-> "", NewVersion |-> "", BumpType |-> "", UpdatedFiles |-> <<>>,
     allowed |-> <<>>, modDir |-> "", oldModPath |-> "", newModPath |-> "",
     rewritten |-> <<>>, bumpedFiles |-> <<>>, err |-> "", steps |-> <<>>]

SameVersionError == "new version is the same as the current version"
DirtyError == "working directory is dirty; uncommitted files not included in commit"
NilDereference == "panic: nil pointer dereference"

\* 1. Ensure git is available
RunCheckGit(c) ==
    [c EXCEPT !.steps = Append(@, "checkGit"),
              !.err = IF c.rp.available THEN "" ELSE "git is not available on the system"]

\* 2. Read the current version
RunReadCurrentVersion(c) ==
    IF c.err # "" THEN c
    ELSE With(readCurrentVersion(c.fs, c.rp, c.versionFilePath), LAMBDA r :
            [c EXCEPT !.steps = Append(@, "readCurrentVersion"),
                      !.fs = r.files, !.OldVersion = r.version, !.err = r.err])

\* the explicit version taken as it is given, no tag put in front
ExplicitVersionAsGiven(versionArg) ==
    [v |-> versionArg, ok |-> versionArg = "dev" \/ IsValid(versionArg)]

\* the explicit version with its tag, and whether it is acceptable
ExplicitVersion(versionArg) ==
    With(IF versionArg # "dev" /\ ~HasPrefix(versionArg, "v") THEN "v" \o versionArg ELSE versionArg,
         LAMBDA explicit : [v |-> explicit, ok |-> explicit = "dev" \/ IsValid(explicit)])

\* 3. Determine new version
RunDetermineNewVersion(c) ==
    IF c.err # "" THEN c
    ELSE IF c.versionArg \in Keywords
    THEN With(bumpVersion(normalizeVersion(c.OldVersion), c.versionArg), LAMBDA b :
            [c EXCEPT !.steps = Append(@, "determineNewVersion"), !.err = b.err,
                      !.NewVersion = IF b.err = "" THEN TrimPrefix(b.v, "v") ELSE "",
                      !.BumpType = IF b.err = "" THEN c.versionArg ELSE ""])
    ELSE IF c.versionArg = "from-git"
    THEN With(getVersionFromGitDir(c.fs, c.rp, Dir(c.versionFilePath)), LAMBDA g :
            [c EXCEPT !.steps = Append(@, "determineNewVersion"), !.err = g.err,
                      !.NewVersion = g.v,
                      !.BumpType = IF g.err = "" THEN "from-git" ELSE ""])
    ELSE With(ExplicitVersion(c.versionArg), LAMBDA e :
            [c EXCEPT !.steps = Append(@, "determineNewVersion"),
                      !.err = IF e.ok THEN "" ELSE "explicit version is not valid semver",
                      !.NewVersion = IF e.ok THEN TrimPrefix(e.v, "v") ELSE "",
                      !.BumpType = IF e.ok THEN "explicit" ELSE ""])

\* the no-op check left out
PreventNoOpSkipped(c) == c

\* Prevent no-op
PreventNoOp(c) ==
    IF c.err # "" THEN c
    ELSE [c EXCEPT !.steps = Append(@, "preventNoOp"),
                   !.err = IF c.NewVersion = c.OldVersion THEN SameVersionError ELSE ""]

\* a variant that looks for the module for a premajor bump as well
RunDetectModuleAnyMajor(c) ==
    IF c.err # "" THEN c
    ELSE With(IF c.BumpType \in {"major", "premajor"}
              THEN locateGoModDir(c.fs, Dir(c.versionFilePath)) ELSE "",
              LAMBDA root :
         IF root = ""
         THEN [c EXCEPT !.allowed = c.extraFiles \o <<c.versionFilePath>>]
         ELSE With(ParseGoMod(c.fs[JoinPath(root, "go.mod")]), LAMBDA f :
            [c EXCEPT !.steps = Append(@, "detectModule"),
                      !.modDir = root,
                      !.err = IF ~f.ok THEN "parsing go.mod"
                              ELSE IF ~f.hasModule THEN NilDereference ELSE "",
                      !.oldModPath = f.path,
                      !.allowed = c.extraFiles \o <<c.versionFilePath, JoinPath(root, "go.mod")>>]))

\* Prepare allowed list for dirty check; detect module for major bumps
RunDetectModule(c) ==
    IF c.err # "" THEN c
    ELSE With(IF c.BumpType = "major" THEN locateGoModDir(c.fs, Dir(c.versionFilePath)) ELSE "",
              LAMBDA root :
         IF root = ""
         THEN [c EXCEPT !.allowed = c.extraFiles \o <<c.versionFilePath>>]
         ELSE With(ParseGoMod(c.fs[JoinPath(root, "go.mod")]), LAMBDA f :
            [c EXCEPT !.steps = Append(@, "detectModule"),
                      !.modDir = root,
                      !.err = IF ~f.ok THEN "parsing go.mod"
                              ELSE IF ~f.hasModule THEN NilDereference ELSE "",
                      !.oldModPath = f.path,
                      !.allowed = c.extraFiles \o <<c.versionFilePath, JoinPath(root, "go.mod")>>]))

\* the check made only once the declaration file has been written
RunCheckAfterWrite(c) ==
    IF c.err # "" THEN c
    ELSE [c EXCEPT !.steps = Append(@, "checkUncommittedFiles"),
                   !.fs = writeVersionFile(c.fs, c.versionFilePath, c.NewVersion),
                   !.err = checkUncommittedFiles(c.fs, c.rp, c.allowed)]

\* 5. Check for uncommitted files
RunCheckUncommittedFiles(c) ==
    IF c.err # "" THEN c
    ELSE [c EXCEPT !.steps = Append(@, "checkUncommittedFiles"),
                   !.err = checkUncommittedFiles(c.fs, c.rp, c.allowed)]

\* a variant that writes the file also when an earlier step has failed
RunWriteVersionFileRegardless(c) ==
    [c EXCEPT !.steps = Append(@, "writeVersionFile"),
              !.fs = writeVersionFile(c.fs, c.versionFilePath, c.NewVersion)]

\* 6. Write version file
RunWriteVersionFile(c) ==
    IF c.err # "" THEN c
    ELSE [c EXCEPT !.steps = Append(@, "writeVersionFile"),
                   !.fs = writeVersionFile(c.fs, c.versionFilePath, c.NewVersion)]

\* 6.5. Update go.mod if needed, and read the new module path back
RunUpdateGoMod(c) ==
    IF c.err # "" \/ c.BumpType # "major" \/ c.modDir = "" THEN c
    ELSE With(updateGoMod(c.fs, c.modDir, c.NewVersion), LAMBDA u :
            [c EXCEPT !.steps = Append(@, "updateGoMod"), !.fs = u.files, !.err = u.err,
                      !.newModPath = IF u.err = ""
                                     THEN ParseGoMod(u.files[JoinPath(c.modDir, "go.mod")]).path
                                     ELSE ""])

\* 6.6. Rewrite self-imports
RunUpdateSelfImports(c) ==
    IF c.err # "" \/ c.newModPath = "" THEN c
    ELSE With(updateSelfImports(c.fs, c.modDir, c.oldModPath, c.newModPath), LAMBDA u :
            [c EXCEPT !.steps = Append(@, "updateSelfImports"), !.fs = u.files, !.err = u.err,
                      !.rewritten = IF u.err = "" THEN u.modified ELSE <<>>])

\* (files, bumpedFiles): the bump files from the k-th on, each given its first
\* bare version replaced; a file that fails is left out with a warning
RECURSIVE BumpFilesFrom(_, _, _, _)
BumpFilesFrom(fs, bumpFiles, k, newVersion) ==
    IF k > Len(bumpFiles) THEN [files |-> fs, bumpedFiles |-> <<>>]
    ELSE With(findAndReplaceSemver(fs, bumpFiles[k], newVersion), LAMBDA r :
         With(BumpFilesFrom(r.files, bumpFiles, k + 1, newVersion), LAMBDA rest :
            [files |-> rest.files,
             bumpedFiles |-> (IF r.err = "" THEN <<bumpFiles[k]>> ELSE <<>>) \o rest.bumpedFiles]))

\* a variant in which a bump file that fails ends the run
RunProcessBumpFilesOrFail(c) ==
    IF c.err # "" THEN c
    ELSE With(BumpFilesFrom(c.fs, c.bumpFiles, 1, c.NewVersion), LAMBDA b :
            [c EXCEPT !.steps = Append(@, "processBumpFiles"),
                      !.fs = b.files, !.bumpedFiles = b.bumpedFiles,
                      !.err = IF Len(b.bumpedFiles) < Len(c.bumpFiles)
                              THEN "failed to bump version" ELSE ""])

\* 6.7. Process bump files
RunProcessBumpFiles(c) ==
    IF c.err # "" THEN c
    ELSE With(BumpFilesFrom(c.fs, c.bumpFiles, 1, c.NewVersion), LAMBDA b :
            [c EXCEPT !.steps = Append(@, "processBumpFiles"),
                      !.fs = b.files, !.bumpedFiles = b.bumpedFiles])

\* the go.mod of the call as a list: empty when no module was detected
GoModOf(c) == IF c.modDir = "" THEN <<>> ELSE <<JoinPath(c.modDir, "go.mod")>>

\* a variant that leaves the bumped files out of what it stages
RunGitCommitWithoutBumped(c) ==
    IF c.err # "" THEN c
    ELSE With(gitCommit(c.fs, c.rp, c.NewVersion,
                        c.extraFiles \o <<c.versionFilePath>> \o GoModOf(c)
                            \o c.rewritten),
              LAMBDA g :
            [c EXCEPT !.steps = Append(@, "gitCommit"), !.rp = g.repo, !.err = g.err,
                      !.UpdatedFiles = IF g.err # "" THEN <<>>
                                       ELSE GoModOf(c) \o <<c.versionFilePath>>
                                                \o c.rewritten \o c.bumpedFiles])

\* 7. Stage, commit, and tag
RunGitCommit(c) ==
    IF c.err # "" THEN c
    ELSE With(gitCommit(c.fs, c.rp, c.NewVersion,
                        c.extraFiles \o <<c.versionFilePath>> \o GoModOf(c)
                            \o c.rewritten \o c.bumpedFiles),
              LAMBDA g :
            [c EXCEPT !.steps = Append(@, "gitCommit"), !.rp = g.repo, !.err = g.err,
                      !.UpdatedFiles = IF g.err # "" THEN <<>>
                                       ELSE GoModOf(c) \o <<c.versionFilePath>>
                                                \o c.rewritten \o c.bumpedFiles])

\* what a call hands back: the files and repository it leaves, the metadata, the error
Returned(c) ==
    [files |-> c.fs, repo |-> c.rp,
     meta |-> [OldVersion |-> c.OldVersion, NewVersion |-> c.NewVersion,
               BumpType |-> c.BumpType, UpdatedFiles |-> c.UpdatedFiles],
     err |-> c.err, steps |-> c.steps]

Run(fs, rp, versionFilePath, versionArg, extraFiles, bumpFiles) ==
    Returned(RunGitCommit(RunProcessBumpFiles(RunUpdateSelfImports(RunUpdateGoMod(
        RunWriteVersionFile(RunCheckUncommittedFiles(RunDetectModule(PreventNoOp(
            RunDetermineNewVersion(RunReadCurrentVersion(RunCheckGit(
                NewCall(fs, rp, versionFilePath, versionArg, extraFiles, bumpFiles)))))))))))))

\* 5. For major bumps, also include go.mod and scan imports
DryRunModuleFiles(c) ==
    IF c.err # "" THEN c
    ELSE With(IF c.BumpType = "major" THEN locateGoModDir(c.fs, Dir(c.versionFilePath)) ELSE "",
              LAMBDA modDir :
         IF modDir = "" THEN [c EXCEPT !.UpdatedFiles = <<c.versionFilePath>>]
         ELSE With(ParseGoMod(c.fs[JoinPath(modDir, "go.mod")]), LAMBDA f :
            IF ~f.ok \/ ~f.hasModule
            THEN [c EXCEPT !.steps = Append(@, "detectModule"), !.err = NilDereference]
            ELSE [c EXCEPT !.steps = Append(@, "detectModule"),
                           !.UpdatedFiles =
                               <<c.versionFilePath, JoinPath(modDir, "go.mod")>>
                               \o scanSelfImports(c.fs, modDir, f.path,
                                                  NewModPath(f.path, c.NewVersion))]))

\* 6. Check bump files: those that exist are listed
DryRunBumpFiles(c) ==
    IF c.err # "" THEN c
    ELSE [c EXCEPT !.UpdatedFiles =
            @ \o Pick(c.bumpFiles, { k \in 1..Len(c.bumpFiles) : c.bumpFiles[k] \in DOMAIN c.fs })]

DryRun(fs, rp, versionFilePath, versionArg, bumpFiles) ==
    Returned(DryRunBumpFiles(DryRunModuleFiles(PreventNoOp(RunDetermineNewVersion(
        RunReadCurrentVersion(NewCall(fs, rp, versionFilePath, versionArg, <<>>, bumpFiles)))))))


(***************************************************************************)
(* The workflow specification: a small repository in every combination of  *)
(* declaration file, go.mod, uncommitted change and git state; Run and     *)
(* DryRun called on it with each directive, extra-file and bump-file list. *)
(***************************************************************************)
MaxCalls == 1

VersionFilePath == "version.go"
GoModPath == "go.mod"

\* the declaration file: absent (""), with a version, with a version of two
\* numbers only, without a version string
VersionFileContents ==
    {"", "package main\n\nvar (\n\tVersion = \"1.2.3\"\n)\n",
     "package main\n\nvar Version = \"1.2\"\n", "package main\n"}

\* go.mod: absent (""), well formed, without a module directive, not parsable
GoModContents == {"", "module example.com/foo\n\ngo 1.21\n", "go 1.21\n", "modul\n"}

\* the committed go.mod when it is the file with the uncommitted change
GoModCommitted == "module example.com/old\n"

\* files that are always there, committed
FixedFiles ==
    [p \in {"main.go", "main_test.go", "package.json", "README.md"} |->
        CASE p = "main.go" -> "package main\n\nimport \"example.com/foo/pkg\"\n"
          [] p = "main_test.go" -> "package main\n\nimport \"example.com/foo\"\n"
          [] p = "package.json" -> "{\"version\": \"1.2.3\"}\n"
          [] OTHER -> "docs\n"]

\* the file with an uncommitted change: none (""), README.md, the bump file or go.mod
DirtyPaths == {"", "README.md", "package.json", GoModPath}

\* git at hand: a repository without tags, a repository tagged v1.3.0
GitStates == {[available |-> TRUE, latest |-> ""], [available |-> TRUE, latest |-> "v1.3.0"]}

\* git not installed: no status, no tags
NoGit == [available |-> FALSE, latest |-> ""]

Directives ==
    {"patch", "major", "premajor", "from-git", "1.3.0", "v1.3.0", "2.0.0", "1.2.3", "1.2",
     "1.3.0+b.5", "dev", "bogus"}
ExtraFileLists == {<<>>, <<"README.md">>}
\* bump files: README.md holds no version, LICENSE does not exist
BumpFileLists == {<<>>, <<"package.json">>, <<"README.md", "LICENSE", "package.json">>}

\* the fixed files with the declaration file and go.mod added when they have content
WorkTree(versionFile, goMod) ==
    [p \in DOMAIN FixedFiles \cup (IF versionFile = "" THEN {} ELSE {VersionFilePath})
                             \cup (IF goMod = "" THEN {} ELSE {GoModPath}) |->
        IF p = VersionFilePath THEN versionFile
        ELSE IF p = GoModPath THEN goMod
        ELSE FixedFiles[p]]

\* the tree of HEAD: the working tree as committed, but for the path with the change
HeadTree(tree, dirty) ==
    IF dirty = "" THEN tree
    ELSE [p \in DOMAIN tree \cup {dirty} |->
            IF p # dirty THEN tree[p]
            ELSE IF p = GoModPath THEN GoModCommitted ELSE "old " \o tree[p]]

\* without git the uncommitted change and go.mod play no part: one tree per declaration file
Init ==
    \E versionFile \in VersionFileContents, goMod \in GoModContents,
       dirty \in DirtyPaths, git \in GitStates \cup {NoGit} :
        /\ git = NoGit => (dirty = "" /\ goMod = "")
        /\ files = WorkTree(versionFile, goMod)
        /\ repo = [EmptyRepo EXCEPT !.available = git.available, !.latest = git.latest,
                                    !.tags = IF git.latest = "" THEN {} ELSE {git.latest},
                                    !.head = HeadTree(WorkTree(versionFile, goMod), dirty)]
        /\ input = [versionFilePath |-> VersionFilePath]
        /\ call = NoCall
        /\ ret = NoRet
        /\ before = [files |-> NoFiles, repo |-> EmptyRepo]
        /\ ncalls = 0

RunCall ==
    /\ ncalls < MaxCalls
    /\ \E versionArg \in Directives, extraFiles \in ExtraFileLists, bumpFiles \in BumpFileLists :
        \E r \in {Run(files, repo, input.versionFilePath, versionArg, extraFiles, bumpFiles)} :
           /\ files' = r.files
           /\ repo' = r.repo
           /\ ret' = [op |-> "Run", meta |-> r.meta, err |-> r.err, steps |-> r.steps]
           /\ call' = [op |-> "Run", versionArg |-> versionArg, extraFiles |-> extraFiles,
                       bumpFiles |-> bumpFiles]
    /\ before' = [files |-> files, repo |-> repo]
    /\ ncalls' = ncalls + 1
    /\ UNCHANGED input

DryRunCall ==
    /\ ncalls < MaxCalls
    /\ \E versionArg \in Directives, bumpFiles \in BumpFileLists :
        \E r \in {DryRun(files, repo, input.versionFilePath, versionArg, bumpFiles)} :
           /\ files' = r.files
           /\ repo' = r.repo
           /\ ret' = [op |-> "DryRun", meta |-> r.meta, err |-> r.err, steps |-> r.steps]
           /\ call' = [op |-> "DryRun", versionArg |-> versionArg, extraFiles |-> <<>>,
                       bumpFiles |-> bumpFiles]
    /\ before' = [files |-> files, repo |-> repo]
    /\ ncalls' = ncalls + 1
    /\ UNCHANGED input

Next == RunCall \/ DryRunCall

Spec == Init /\ [][Next]_vars


(***************************************************************************)
(* Properties of Run and DryRun                                            *)
(***************************************************************************)
\* whether the call that returned went through the step
Reached(step) == \E i \in 1..Len(ret.steps) : ret.steps[i] = step

\* the paths with uncommitted changes when the call was made
StatusBefore == Status(before.files, before.repo)

\* every file that was there when the call was made is there still, with the same content
ExistingFilesKept ==
    \A p \in DOMAIN before.files : p \in DOMAIN files /\ files[p] = before.files[p]

\* the hard errors of validation: current version, directive, no-op, dirty tree, version string
ValidationErrors ==
    {"format", "unknown bump argument", "explicit version is not valid semver", SameVersionError,
     DirtyError, "failed to find version string in file"}

\* the errors Run can return, with git at hand, before it reaches the check for
\* uncommitted files
EarlierErrors ==
    {"failed to find version string in file", "format",
     "unknown bump argument", "failed to get version from git",
     "explicit version is not valid semver", SameVersionError, "parsing go.mod", NilDereference}

\* C10: In Run and in DryRun, whenever the new version computed equals the version
\* read from the declaration file, the call returns the same-version error; Run has
\* then not reached the check for uncommitted files, the write of the declaration
\* file or the stage, commit and tag step, and it leaves every existing file and
\* the repository as they were.
C10_SameVersionStopsTheCall ==
    (/\ call.op \in {"Run", "DryRun"}
     /\ ret.meta.BumpType # ""
     /\ ret.meta.NewVersion = ret.meta.OldVersion)
    => /\ ret.err = SameVersionError
       /\ ~Reached("checkUncommittedFiles")
       /\ ~Reached("writeVersionFile")
       /\ ~Reached("gitCommit")
       /\ ExistingFilesKept
       /\ repo = before.repo

\* Run asked for the version the file already holds, in a tree with an unrelated change
C10_Witness ==
    /\ call.op = "Run"
    /\ ret.meta.BumpType = "explicit"
    /\ ret.meta.NewVersion = ret.meta.OldVersion
    /\ "README.md" \in StatusBefore
    /\ call.extraFiles = <<>>
    /\ ret.err = SameVersionError

\* C5 (as claimed): DryRun leaves the file system and the repository exactly as
\* they were before the call, whatever the directive, the bump files and the
\* state of the declaration file.
C5_DryRunChangesNothing ==
    call.op = "DryRun" => (files = before.files /\ repo = before.repo)

\* C3 (as claimed): when Run returns one of its hard validation errors, no file
\* has been created or modified, also when the declaration file did not exist.
C3_HardErrorBeforeAnyWrite ==
    (call.op = "Run" /\ ret.err \in ValidationErrors) => files = before.files

\* C3 (amended): when Run returns one of its hard validation errors, the repository
\* is as it was and every file that existed is unchanged; the only file that can
\* have been created is a declaration file that did not exist, holding the
\* version the call read as the current one.
C3_HardErrorAfterSeedingOnly ==
    (call.op = "Run" /\ ret.err \in ValidationErrors)
    => /\ repo = before.repo
       /\ ExistingFilesKept
       /\ DOMAIN files \subseteq DOMAIN before.files \cup {input.versionFilePath}
       /\ input.versionFilePath \notin DOMAIN before.files
            => /\ input.versionFilePath \in DOMAIN files
               /\ files = writeVersionFile(before.files, input.versionFilePath, ret.meta.OldVersion)

\* Run seeded an absent declaration file and then failed validation
C3_Witness ==
    /\ call.op = "Run"
    /\ ret.err \in ValidationErrors
    /\ input.versionFilePath \notin DOMAIN before.files
    /\ input.versionFilePath \in DOMAIN files

\* the paths the dirty check may find changed: the declaration file, the extra
\* files, and go.mod for a major bump
AllowedOf(c) ==
    {input.versionFilePath} \cup { c.extraFiles[i] : i \in 1..Len(c.extraFiles) }
        \cup (IF c.versionArg = "major" THEN {GoModPath} ELSE {})

\* Run called where git works, on an existing declaration file, with a change
\* outside the allowed paths
DirtyRun ==
    /\ call.op = "Run"
    /\ before.repo.available
    /\ input.versionFilePath \in DOMAIN before.files
    /\ ~(StatusBefore \subseteq AllowedOf(call))

\* C4 (as claimed): Run on an existing declaration file with a changed or untracked
\* path outside the allowed list returns the dirty-working-directory error and
\* leaves every file and the repository unchanged.
C4_DirtyTreeGivesDirtyError ==
    DirtyRun => (ret.err = DirtyError /\ files = before.files /\ repo = before.repo)

\* C4 (amended): Run on an existing declaration file with a changed or untracked
\* path outside the allowed list fails and leaves every file and the repository
\* unchanged; the error is the dirty-working-directory error exactly when the call
\* got as far as the check, and otherwise the error of the earlier step that failed.
C4_DirtyTreeAbortsUnchanged ==
    DirtyRun
    => /\ files = before.files
       /\ repo = before.repo
       /\ IF Reached("checkUncommittedFiles") THEN ret.err = DirtyError
          ELSE ret.err \in EarlierErrors
       /\ ~Reached("writeVersionFile")
       /\ ~Reached("gitCommit")

\* a major bump with go.mod and bump files stopped by an unrelated change
C4_Witness ==
    /\ DirtyRun
    /\ call.versionArg = "major"
    /\ call.bumpFiles # <<>>
    /\ GoModPath \in DOMAIN before.files
    /\ ret.err = DirtyError


\* what the statement of C11 accepts as an explicit version: "dev", or valid
\* semver once a "v" is put in front when there is none
AcceptedExplicit(d) == d = "dev" \/ IsValid(IF HasPrefix(d, "v") THEN d ELSE "v" \o d)

Elements(seq) == { seq[i] : i \in 1..Len(seq) }

\* what Run returns for the arguments of the call just made, from the state it was made in
RunInstead ==
    Run(before.files, before.repo, input.versionFilePath, call.versionArg, <<>>, call.bumpFiles)

\* C15: for the same declaration file, directive and bump files, the UpdatedFiles
\* of DryRun are the files a Run would update: the declaration file, go.mod and
\* the import-rewritten sources for a major bump, and exactly the bump files in
\* which a version would be replaced.
C15_DryRunListsWhatRunUpdates ==
    (call.op = "DryRun" /\ ret.err = "")
    => With(RunInstead, LAMBDA r :
          r.err = "" => Elements(ret.meta.UpdatedFiles) = Elements(r.meta.UpdatedFiles))


\* the commit a successful Run made: the last one
LastCommit == repo.commits[Len(repo.commits)]

\* C16: in every successful Run the commit message is NewVersion, which has no
\* leading "v", the one tag created is "v" followed by NewVersion, and the
\* declaration file holds NewVersion.
C16_CommitMessageAndTag ==
    (call.op = "Run" /\ ret.err = "")
    => /\ Len(repo.commits) = Len(before.repo.commits) + 1
       /\ LastCommit.msg = ret.meta.NewVersion
       /\ ~HasPrefix(ret.meta.NewVersion, "v")
       /\ repo.tags \ before.repo.tags = {"v" \o ret.meta.NewVersion}
       /\ repo.latest = "v" \o ret.meta.NewVersion
       /\ FirstGroup(VersionRegexp, files[input.versionFilePath]) = ret.meta.NewVersion

\* a version given with its tag was committed without it and tagged with it
C16_Witness ==
    /\ call.op = "Run"
    /\ call.versionArg = "v1.3.0"
    /\ ret.err = ""
    /\ LastCommit.msg = "1.3.0"
    /\ "v1.3.0" \in repo.tags

\* C17: after a successful Run every file it wrote (UpdatedFiles: the declaration
\* file, go.mod, the import-rewritten sources, the bump files whose version was
\* replaced) and every extra file was given to git add for the commit, and the
\* working tree has no uncommitted change left.
C17_WrittenFilesCommitted ==
    (call.op = "Run" /\ ret.err = "")
    => /\ Elements(ret.meta.UpdatedFiles) \subseteq LastCommit.added
       /\ Elements(call.extraFiles) \subseteq LastCommit.added
       /\ { p \in DOMAIN files : p \notin DOMAIN before.files \/ files[p] # before.files[p] }
             \subseteq LastCommit.files
       /\ Status(files, repo) = {}

\* a major bump with a changed extra file and bump files: everything written was committed
C17_Witness ==
    /\ call.op = "Run"
    /\ ret.err = ""
    /\ ret.meta.BumpType = "major"
    /\ call.extraFiles = <<"README.md">>
    /\ "README.md" \in StatusBefore
    /\ LastCommit.files = {"README.md", "version.go", "go.mod", "main.go", "main_test.go", "package.json"}


\* the bump files of the call on which findAndReplaceSemver fails
FailedBumpFiles ==
    { f \in Elements(call.bumpFiles) :
        findAndReplaceSemver(before.files, f, ret.meta.NewVersion).err # "" }

\* what Run returns when the bump files that fail are left out of the call
RunWithoutFailedBumpFiles ==
    Run(before.files, before.repo, input.versionFilePath, call.versionArg, call.extraFiles,
        Pick(call.bumpFiles, { k \in 1..Len(call.bumpFiles) : call.bumpFiles[k] \notin FailedBumpFiles }))

\* C19: a bump file on which findAndReplaceSemver fails (missing, or without an
\* un-tagged semver) does not abort Run: the other bump files are processed, the
\* stage, commit and tag step is reached, the run ends as it would have ended
\* without that file (in success when nothing else fails), and the failed file
\* is not in UpdatedFiles nor, unless it is an extra file, among the paths staged.
C19_FailedBumpFileSkipped ==
    (call.op = "Run" /\ Reached("processBumpFiles") /\ FailedBumpFiles # {})
    => /\ Reached("gitCommit")
       /\ With(RunWithoutFailedBumpFiles, LAMBDA r :
             /\ ret.err = r.err
             /\ ret.meta = r.meta
             /\ files = r.files
             /\ repo.head = r.repo.head
             /\ repo.tags = r.repo.tags)
       /\ ret.err = ""
            => /\ Elements(ret.meta.UpdatedFiles) \cap FailedBumpFiles = {}
               /\ LastCommit.added \cap FailedBumpFiles \subseteq Elements(call.extraFiles)
               /\ Elements(call.bumpFiles) \ FailedBumpFiles \subseteq Elements(ret.meta.UpdatedFiles)

\* a file without a version and a missing file came before one that was bumped,
\* and the run succeeded
C19_Witness ==
    /\ call.op = "Run"
    /\ call.bumpFiles = <<"README.md", "LICENSE", "package.json">>
    /\ FailedBumpFiles = {"README.md", "LICENSE"}
    /\ ret.err = ""
    /\ ret.meta.UpdatedFiles = <<"version.go", "package.json">>
    /\ files["package.json"] # before.files["package.json"]
    /\ LastCommit.added = {"version.go", "package.json"}


\* the version an absent declaration file is created with
SeedVersion ==
    IF before.repo.available /\ before.repo.latest # ""
    THEN TrimPrefix(before.repo.latest, "v")
    ELSE "dev"

\* the call found no declaration file and got as far as reading the version
SeededCall ==
    /\ call.op \in {"Run", "DryRun"}
    /\ input.versionFilePath \notin DOMAIN before.files
    /\ Reached("readCurrentVersion")

\* C20: when the declaration file does not exist, reading the current version
\* creates it, with the latest tag without its "v" when git describe succeeds
\* and with "dev" otherwise; the value written is the value returned as the
\* current version, and a keyword bump proceeds from it, "dev" counting as 0.0.0.
C20_MissingFileSeeded ==
    SeededCall
    => /\ input.versionFilePath \in DOMAIN files
       /\ ret.meta.OldVersion = SeedVersion
       /\ ~Reached("writeVersionFile")
            => FirstGroup(VersionRegexp, files[input.versionFilePath]) = ret.meta.OldVersion
       /\ Reached("determineNewVersion")
       /\ call.versionArg \in Keywords
            => /\ ret.meta.BumpType = call.versionArg
               /\ With(bumpFields(parseSemVer(IF SeedVersion = "dev" THEN "0.0.0" ELSE SeedVersion),
                                  call.versionArg),
                       LAMBDA n : ret.meta.NewVersion = TrimPrefix(formatSemVer(n.major, n.minor, n.patch, n.prerelease), "v"))

\* a dry run in a repository with the tag v1.3.0 and one in a tree without git
\* created the file, with 1.3.0 and with dev, and bumped to 1.3.1 and to 0.0.1
C20_Witness ==
    /\ SeededCall
    /\ call.op = "DryRun"
    /\ call.versionArg = "patch"
    /\ ret.err = ""
    /\ \/ /\ before.repo.latest = "v1.3.0"
          /\ ret.meta.OldVersion = "1.3.0"
          /\ ret.meta.NewVersion = "1.3.1"
          /\ files[input.versionFilePath] = "package main\n\nvar (\n\tVersion = \"1.3.0\"\n)\n"
       \/ /\ ~before.repo.available
          /\ ret.meta.OldVersion = "dev"
          /\ ret.meta.NewVersion = "0.0.1"
          /\ files[input.versionFilePath] = "package main\n\nvar (\n\tVersion = \"dev\"\n)\n"


\* the Go source files of the tree other than the declaration file
OtherSources(fs) ==
    { p \in DOMAIN fs : HasSuffix(p, ".go") /\ p # input.versionFilePath }

\* go.mod and the other source files are as they were before the call
ModuleFilesUnchanged ==
    /\ (GoModPath \in DOMAIN files) = (GoModPath \in DOMAIN before.files)
    /\ GoModPath \in DOMAIN files => files[GoModPath] = before.files[GoModPath]
    /\ OtherSources(files) = OtherSources(before.files)
    /\ \A p \in OtherSources(files) : files[p] = before.files[p]

\* C21: Run writes go.mod and rewrites import paths only when the directive is
\* exactly "major" and a go.mod is found from the declaration file's directory
\* upwards; for premajor, every other keyword, from-git and an explicit version
\* (also one that raises the major number) go.mod and the source files other
\* than the declaration file are unchanged and go.mod is not in UpdatedFiles.
C21_ModuleUpdatedOnlyForMajor ==
    call.op = "Run"
    => /\ (call.versionArg # "major" \/ GoModPath \notin DOMAIN before.files)
            => /\ ModuleFilesUnchanged
               /\ GoModPath \notin Elements(ret.meta.UpdatedFiles)
               /\ ~Reached("detectModule")
               /\ ~Reached("updateGoMod")
               /\ ~Reached("updateSelfImports")
       /\ (call.versionArg = "major" /\ GoModPath \in DOMAIN before.files /\ ret.err = "")
            => /\ Reached("updateGoMod")
               /\ ret.meta.UpdatedFiles[1] = GoModPath
               /\ ParseGoMod(files[GoModPath]).path
                    = NewModPath(ParseGoMod(before.files[GoModPath]).path, ret.meta.NewVersion)

\* premajor and the explicit 2.0.0 raised the major number of 1.2.3 in a module
\* and left go.mod and main.go alone
C21_Witness ==
    /\ call.op = "Run"
    /\ call.versionArg \in {"premajor", "2.0.0"}
    /\ ret.err = ""
    /\ ret.meta.OldVersion = "1.2.3"
    /\ ret.meta.NewVersion \in {"2.0.0-0", "2.0.0"}
    /\ ret.meta.UpdatedFiles[1] = input.versionFilePath
    /\ GoModPath \in DOMAIN files
    /\ files[GoModPath] = "module example.com/foo\n\ngo 1.21\n"
    /\ files["main.go"] = before.files["main.go"]


(***************************************************************************)
(* SpecModule: updateGoMod applied to a drawn go.mod and new version, and  *)
(* updateSelfImports applied to a drawn source tree and pair of module     *)
(* paths.                                                                  *)
(***************************************************************************)
MaxMajor == 3

\* module paths: plain, with a /vN suffix, with what only looks like one, gopkg.in
ModulePaths ==
    {"example.com/m", "example.com/m/v10", "example.com/m/v02", "example.com/m/v2.1",
     "example.com/v2x", "gopkg.in/yaml.v2", "gopkg.in/yaml.v3"}
      \cup { "example.com/m/v" \o Itoa(n) : n \in 0..MaxMajor }

\* go.mod files: the module directive first, alone, after the go directive,
\* absent, and a file that does not parse
GoModLayouts(path) ==
    {"module " \o path \o "\n\ngo 1.18\n", "module " \o path \o "\n",
     "go 1.18\n\nmodule " \o path \o "\n", "go 1.18\n", "modul\n"}

ModuleVersions == { Itoa(n) \o ".0.0" : n \in (0..MaxMajor) \cup {10} } \cup {"3.1.4-rc.1"}

\* import paths: the standard library, the module, a package of it, another
\* module whose path starts with the same characters, a package of the next major
ImportChoices ==
    {"fmt", "example.com/foo", "example.com/foo/pkg", "example.com/foobar/x", "example.com/foo/v2/pkg"}

\* a source file with one import
GoSource(imp) == "package main\n\nimport \"" \o imp \o "\"\n"

\* a tree with two sources of the module, a vendored one and a text file
SourceTree(imports) ==
    [p \in {"main.go", "main_test.go", "vendor/dep.go", "README.md"} |->
        CASE p \in DOMAIN imports -> GoSource(imports[p])
          [] p = "vendor/dep.go" -> GoSource("example.com/foo")
          [] OTHER -> "import \"example.com/foo\"\n"]

InitModule ==
    /\ \/ \E path \in ModulePaths, newVersion \in ModuleVersions :
            \E data \in GoModLayouts(path) :
               /\ input = [modDir |-> ".", modPath |-> path, newVersion |-> newVersion]
               /\ files = [p \in {"go.mod"} |-> data]
       \/ \E oldMod \in {"example.com/foo", "example.com/foo/v2"},
             newMod \in {"example.com/foo/v2", "example.com/foo/v3"},
             imports \in [{"main.go", "main_test.go"} -> ImportChoices] :
               /\ input = [modDir |-> ".", oldMod |-> oldMod, newMod |-> newMod, imports |-> imports]
               /\ files = SourceTree(imports)
    /\ repo = EmptyRepo
    /\ call = NoCall
    /\ ret = NoRet
    /\ before = [files |-> NoFiles, repo |-> EmptyRepo]
    /\ ncalls = 0

UpdateGoModCall ==
    /\ call.op = "none"
    /\ "modPath" \in DOMAIN input
    /\ \E u \in {updateGoMod(files, input.modDir, input.newVersion)} :
          /\ files' = u.files
          /\ ret' = [err |-> u.err]
    /\ call' = [op |-> "updateGoMod"]
    /\ before' = [files |-> files, repo |-> repo]
    /\ ncalls' = ncalls + 1
    /\ UNCHANGED <<repo, input>>

UpdateSelfImportsCall ==
    /\ call.op = "none"
    /\ "oldMod" \in DOMAIN input
    /\ \E u \in {updateSelfImports(files, input.modDir, input.oldMod, input.newMod)} :
          /\ files' = u.files
          /\ ret' = [modified |-> u.modified, err |-> u.err]
    /\ call' = [op |-> "updateSelfImports"]
    /\ before' = [files |-> files, repo |-> repo]
    /\ ncalls' = ncalls + 1
    /\ UNCHANGED <<repo, input>>

NextModule == UpdateGoModCall \/ UpdateSelfImportsCall

SpecModule == InitModule /\ [][NextModule]_vars

\* where a trailing "/v" and digits begins in path (at most one place)
SuffixStarts(path) ==
    { i \in 1..(Len(path) - 2) :
        /\ SubSeq(path, i, i + 1) = "/v"
        /\ \A j \in (i + 2)..Len(path) : Ch(path, j) \in Digit }

\* path without a trailing /vN, whatever the number N
WithoutAnySuffix(path) ==
    With(SuffixStarts(path), LAMBDA at : IF at = {} THEN path ELSE SubSeq(path, 1, Min(at) - 1))

\* path without a trailing major-version suffix: /vN with N >= 2 and no
\* leading zero, or the .vN of a gopkg.in path
WithoutMajorSuffix(path) ==
    IF HasPrefix(path, "gopkg.in/")
    THEN With({ i \in 1..(Len(path) - 2) :
                  /\ SubSeq(path, i, i + 1) = ".v"
                  /\ \A j \in (i + 2)..Len(path) : Ch(path, j) \in Digit },
              LAMBDA at : IF at = {} THEN path ELSE SubSeq(path, 1, Min(at) - 1))
    ELSE With({ i \in SuffixStarts(path) :
                  Ch(path, i + 2) # "0" /\ SubSeq(path, i, Len(path)) # "/v1" },
              LAMBDA at : IF at = {} THEN path ELSE SubSeq(path, 1, Min(at) - 1))

\* the major number of the drawn version, as a string
NewMajor == SubSeq(input.newVersion, 1, Index(input.newVersion, ".") - 1)

\* "" for major 0 and 1, "/vN" from 2 on
MajorSuffix == IF NewMajor \in {"0", "1"} THEN "" ELSE "/v" \o NewMajor

\* updateGoMod returned without an error
GoModUpdated == call.op = "updateGoMod" /\ ret.err = ""

\* C22 as stated: the module path becomes the old path without any /vN
\* suffix, followed by /v<major> when the major is 2 or more.
C22_AnySuffixReplaced ==
    GoModUpdated
    => ParseGoMod(files["go.mod"]).path = WithoutAnySuffix(input.modPath) \o MajorSuffix

\* C22: updateGoMod sets the module path to the base path for a new major of
\* 0 or 1 and to base path + "/v" + major for 2 or more, where the base path
\* is the old path without its major-version suffix (/vN with N >= 2, or the
\* .vN of a gopkg.in path): such a suffix is replaced, never stacked.
C22_MajorSuffixReplaced ==
    GoModUpdated
    => /\ ParseGoMod(files["go.mod"]).path = WithoutMajorSuffix(input.modPath) \o MajorSuffix
       /\ Len(Split(files["go.mod"], "\n")) = Len(Split(before.files["go.mod"], "\n"))
       /\ \A i \in 1..Len(Split(files["go.mod"], "\n")) :
             ModLineKind(Split(before.files["go.mod"], "\n")[i]) # "module"
               => Split(files["go.mod"], "\n")[i] = Split(before.files["go.mod"], "\n")[i]

\* a path ending in /v2 bumped to major 3 ends in /v3
C22_Witness ==
    /\ GoModUpdated
    /\ input.modPath = "example.com/m/v2"
    /\ input.newVersion = "3.0.0"
    /\ files["go.mod"] = "module example.com/m/v3\n\ngo 1.18\n"


\* the steps of Run in the order of the code
RunStepOrder ==
    <<"checkGit", "readCurrentVersion", "determineNewVersion", "preventNoOp", "detectModule",
      "checkUncommittedFiles", "writeVersionFile", "updateGoMod", "updateSelfImports",
      "processBumpFiles", "gitCommit">>

\* the steps taken only for a major bump in a module
ModuleSteps == {"detectModule", "updateGoMod", "updateSelfImports"}

\* the place of a step in the order
StepIndex(step) == CHOOSE i \in 1..Len(RunStepOrder) : RunStepOrder[i] = step

\* the steps reached are steps of the order, each once, in order, none but the
\* module steps left out before the last one reached, and the module steps all
\* or none up to the last one reached
StepsArePrefix ==
    /\ \A k \in 1..Len(ret.steps) : ret.steps[k] \in Elements(RunStepOrder)
    /\ \A k \in 1..(Len(ret.steps) - 1) : StepIndex(ret.steps[k]) < StepIndex(ret.steps[k + 1])
    /\ \A i \in 1..Len(RunStepOrder) :
          (ret.steps # <<>> /\ i < StepIndex(ret.steps[Len(ret.steps)])
                /\ RunStepOrder[i] \notin ModuleSteps)
            => Reached(RunStepOrder[i])
    /\ Reached("updateGoMod") => Reached("detectModule")
    /\ Reached("updateSelfImports") => Reached("updateGoMod")
    /\ (Reached("detectModule") /\ Reached("processBumpFiles")) => Reached("updateSelfImports")

\* the steps that ran left their marks, and nothing else did: nothing is staged,
\* committed or tagged unless the last step was reached, a commit is there only
\* when staging succeeded and a tag only when the commit did
StageCommitTagInOrder ==
    /\ ~Reached("gitCommit") => repo = before.repo
    /\ ret.err = "git add failed" => repo = before.repo
    /\ ret.err = "git commit failed" => repo = before.repo
    /\ repo.tags # before.repo.tags
         => (ret.err = "" /\ Len(repo.commits) = Len(before.repo.commits) + 1)
    /\ Len(repo.commits) <= Len(before.repo.commits) + 1
    /\ ret.err = "" <=> (Reached("gitCommit") /\ repo.tags # before.repo.tags)

\* C23 as stated: Run is a prefix of the fixed step sequence, and the clean-tree
\* check precedes every write: as long as the write step was not reached, no
\* file differs from what it was when Run was called.
C23_CheckBeforeEveryWrite ==
    call.op = "Run"
    => /\ StepsArePrefix
       /\ StageCommitTagInOrder
       /\ ~Reached("writeVersionFile") => files = before.files

\* C23: every Run is a prefix of the fixed step sequence (git check, read
\* current version, compute new version, no-op check, module detection for a
\* major bump, clean-tree check, write declaration file, update go.mod, rewrite
\* self-imports, bump files, stage-commit-tag); no step runs twice or out of
\* order; a failure at a step means no later step runs; commit happens only
\* after staging succeeded and tag only after commit succeeded; and the
\* clean-tree check precedes every write to go.mod, sources, bump files and an
\* existing declaration file.  The one write before the check is that of the
\* read step, which creates a declaration file that does not exist.
C23_StepsInOrder ==
    call.op = "Run"
    => /\ StepsArePrefix
       /\ StageCommitTagInOrder
       /\ ~Reached("writeVersionFile")
            => /\ ExistingFilesKept
               /\ DOMAIN files \subseteq DOMAIN before.files \cup {input.versionFilePath}
               /\ (input.versionFilePath \in DOMAIN files \ DOMAIN before.files)
                    => Reached("readCurrentVersion")
       /\ (ret.err # "" /\ ~Reached("gitCommit"))
            => /\ ret.meta.UpdatedFiles = <<>>
               /\ \A i \in 1..Len(RunStepOrder) :
                     i > StepIndex(ret.steps[Len(ret.steps)]) => ~Reached(RunStepOrder[i])
       /\ (Reached("writeVersionFile") /\ ~Reached("processBumpFiles"))
            => \A p \in Elements(call.bumpFiles) \cap DOMAIN before.files :
                  files[p] = before.files[p]

\* a major bump in a module went through every step; a major bump in a module
\* whose go.mod has no module path stopped at the detection, before the check
C23_Witness ==
    /\ call.op = "Run"
    /\ call.versionArg = "major"
    /\ \/ ret.steps = RunStepOrder /\ ret.err = ""
       \/ /\ ret.steps = SubSeq(RunStepOrder, 1, 5)
          /\ ret.err = NilDereference
          /\ files = before.files


\* the version the declaration file holds after the call
StoredVersion == FirstGroup(VersionRegexp, files[input.versionFilePath])

\* C28: after any successful Run, whatever the directive (keyword, from-git or
\* an accepted explicit version, also one with build metadata), the version
\* stored in the declaration file is "dev" or a string that parseSemVer accepts
\* after normalization, so that a following Run with a keyword directive on the
\* same file does not fail with a version-format error.
C28_StoredVersionParses ==
    (call.op = "Run" /\ ret.err = "")
    => /\ StoredVersion = ret.meta.NewVersion
       /\ StoredVersion = "dev" \/ parseSemVer(normalizeVersion(StoredVersion)).ok
       /\ Run(files, repo, input.versionFilePath, "patch", <<>>, <<>>).err # "format"


\* imp is the old module path or lies under it at a path boundary
IsSelfImport(imp) == imp = input.oldMod \/ HasPrefix(imp, input.oldMod \o "/")

\* C30: updateSelfImports rewrites an import path only when it is the old
\* module path itself or lies under it at a path boundary; an import of another
\* module whose path merely starts with the same characters is left unchanged;
\* a file none of whose imports is rewritten is neither written nor listed as
\* modified.
C30_OnlySelfImportsRewritten ==
    call.op = "updateSelfImports"
    => /\ ret.err = ""
       /\ DOMAIN files = DOMAIN before.files
       /\ \A p \in DOMAIN files \ DOMAIN input.imports : files[p] = before.files[p]
       /\ \A p \in DOMAIN input.imports :
             With(input.imports[p], LAMBDA imp :
                 IF IsSelfImport(imp)
                 THEN /\ files[p] = GoSource(input.newMod
                                               \o SubSeq(imp, Len(input.oldMod) + 1, Len(imp)))
                      /\ p \in Elements(ret.modified)
                 ELSE /\ files[p] = before.files[p]
                      /\ p \notin Elements(ret.modified))

====
